---- MODULE Spec2Model ----
(***************************************************************************)
(* Model of the routing and evaluate-and-correct core of the agentic       *)
(* workflow repository.                                                    *)
(*                                                                         *)
(*  - EvaluationAgent (workflow_agents/evaluation_agent_fixed.py): the     *)
(*    bounded correction loop of process() and the convenience entry       *)
(*    point evaluate_with_corrections().                                   *)
(*  - RoutingAgent, lexical blend (workflow_agents/routing_agent.py) and   *)
(*    RoutingAgent, cosine similarity (workflow_agents/                    *)
(*    routing_agent_fixed.py).                                             *)
(*                                                                         *)
(* Numbers.  Evaluation scores are kept in tenths of a point (7.0 is 70).  *)
(* Routing scores are Python floats.  A float is kept as the whole number  *)
(*     8 * 7700 * q + e                                                    *)
(* where q is the exact rational value of the expression (7700 makes       *)
(* 0.4 * k / n for n in {10, 11, 14}, 0.1, 0.2, 0.3, 0.95 and the cosines  *)
(* of the embedding vectors used here whole numbers) and e, in half units  *)
(* in the last place, is the distance of the IEEE-754 double the code      *)
(* computes from the double nearest to q.  Two floats compare as these     *)
(* numbers do: 0.2 + 0.1 is 0.30000000000000004, above the literal 0.3.    *)
(***************************************************************************)
EXTENDS Integers, Sequences, FiniteSets, TLC

VARIABLES
    \* ---- EvaluationAgent: the object
    max_interactions,       \* self.max_interactions
    \* ---- EvaluationAgent.process: the activation record of one call
    pc,                     \* "idle" | "loop" | "return" | "done"
    item_to_evaluate,       \* input_data['item_to_evaluate']
    enable_corrections,     \* input_data['enable_corrections']
    correction_threshold,   \* input_data['correction_threshold']
    evaluation_result,      \* local evaluation_result
    correction_history,     \* local correction_history
    current_item,           \* local current_item
    interaction_count,      \* local interaction_count
    response,               \* <<>> until process returns, then <<AgentResponse>>
    \* ---- history variables (what the caller and the evaluator observed)
    evalLog,                \* overall_score read from each _perform_evaluation of this call
    replyLog,               \* what the evaluator gave to each of them: "json" | "malformed"
    entry,                  \* how this call was made: entry point, max_iterations argument,
                            \* and self.max_interactions as the call found it
    exit_reason,            \* why the correction loop ended
    calls,                  \* number of calls started on this agent
    observer,               \* whether a caller keeps the first returned result
    remembered,             \* <<>> or <<[result, exit_reason]>> of the first call
    \* ---- RoutingAgent: the object
    router,                 \* "lexical" (routing_agent.py) | "semantic" (routing_agent_fixed.py)
    route_embeddings,       \* route_configs[..]['embedding'], in registration order
    \* ---- RoutingAgent.process: one call and what it returned
    rt_pc,                  \* "idle" | "routed"
    task_text,              \* the task text, as a sequence of lower-case words
    preferred_agents,       \* input_data['preferred_agents']
    task_embedding,         \* <<>> or <<vector>>: what _get_embedding gave for the task
    embed_ok,               \* whether the embeddings API answered for the task
    routing,                \* <<>> or <<the metadata of the returned AgentResponse>>
    routes,                 \* number of routing calls started on this router
    repeat,                 \* whether the caller repeats its first request on every call
    first_routing,          \* <<>> or <<the first request, the embedder's answer, the result>>
    \* ---- AgenticProjectManagementWorkflow._execute_routed_workflow: one call
    sel_pc,                 \* "idle" | "selected"
    routing_analysis,       \* <<>> or <<the routing_analysis argument>>
    workflow,               \* "none" or the workflow method the call dispatched to
    selections,             \* number of calls made
    \* ---- the workflow orchestrator object and the executions made on it
    orchestrator,           \* "enhanced" (agentic_workflow_fixed.py) |
                            \* "corrected" (agentic_workflow_corrected.py) |
                            \* "pipeline" (agentic_workflow.py)
    heap,                   \* the list objects created so far, each a sequence of records
    self_steps,             \* self.completed_steps: the list it refers to, 0 if no such attribute
    workflow_history,       \* self.workflow_history of the pipeline orchestrator
    threads,                \* how many executions the callers run at the same time
    ex,                     \* per execution: position, plan, local ledger, returned result
    grades,                 \* the confidence_score values the providers' responses carry
    inspection              \* <<>> or <<what a caller of _calculate_overall_confidence got>>

evalVars == << max_interactions, pc, item_to_evaluate, enable_corrections,
               correction_threshold, evaluation_result, correction_history,
               current_item, interaction_count, response, evalLog, replyLog,
               entry, exit_reason, calls, observer, remembered >>

routeVars == << router, route_embeddings, rt_pc, task_text, preferred_agents,
                task_embedding, embed_ok, routing, routes, repeat, first_routing >>

selectVars == << sel_pc, routing_analysis, workflow, selections >>

execVars == << orchestrator, heap, self_steps, workflow_history, threads, ex, grades,
               inspection >>

vars == << evalVars, routeVars, selectVars, execVars >>

\* What the actions of one component leave alone.
outsideEval == << routeVars, selectVars, execVars >>
outsideRoute == << evalVars, selectVars, execVars >>
outsideSelect == << evalVars, routeVars, execVars >>
outsideExec == << evalVars, routeVars, selectVars >>

\* ------------------------------------------------------------------ bounds

MaxCap == 2        \* largest iteration cap given at construction or per call
MaxCalls == 2      \* calls made on one agent object in one behaviour
MaxWords == 3      \* words in a task text
MaxRoutes == 2     \* routing calls made on one router in one behaviour
MaxSelections == 2 \* workflow selections made in one behaviour
MaxExecs == 2      \* workflow executions made on one orchestrator in one behaviour
MaxPlan == 2       \* steps in a plan the action planning agent returns
MaxSteps == 3      \* records in a ledger a caller assigns to completed_steps

\* --------------------------------------------------- program constants

DefaultThreshold == 70     \* correction_threshold default, 7.0
FallbackScore == 50        \* overall_score of the parse-failure fallback, 5.0
LowCriterionLimit == 60    \* "if score < 6" in _generate_correction_instructions
ConfidenceCap == 90        \* min(0.9, overall_score / 10), in hundredths

\* ------------------------------------------------------------- inputs

Items == {"docA", "docB"}
Thresholds == {50, DefaultThreshold}

\* What the generation service can answer to one evaluation prompt: text that
\* json.loads rejects, or a JSON object with or without "overall_score".
ScoredReply(s) ==
    [ kind |-> "json", has_score |-> TRUE, overall_score |-> s,
      weaknesses |-> IF s < DefaultThreshold THEN << "w1", "w2" >> ELSE << >>,
      individual_scores |-> IF s < DefaultThreshold
                            THEN << << "completeness", 50 >>, << "quality", 60 >> >>
                            ELSE << << "completeness", 90 >> >>,
      recommendations |-> IF s < DefaultThreshold THEN << "r1" >> ELSE << >> ]

UnscoredReply ==
    [ kind |-> "json", has_score |-> FALSE, overall_score |-> 0,
      weaknesses |-> << "w1" >>,
      individual_scores |-> << >>,
      recommendations |-> << >> ]

MalformedReply ==
    [ kind |-> "malformed", has_score |-> FALSE, overall_score |-> 0,
      weaknesses |-> << >>, individual_scores |-> << >>, recommendations |-> << >> ]

ReplyScores == {30, 70, 90}

Replies == { ScoredReply(s) : s \in ReplyScores } \cup { UnscoredReply, MalformedReply }

\* ------------------------------------------------- EvaluationAgent helpers

\* An evaluation that gives the empty dictionary for a reply it cannot parse.
PerformEvaluationNoFallback(reply) ==
    IF reply.kind = "malformed"
    THEN [ has_score |-> FALSE, overall_score |-> 0, weaknesses |-> << >>,
           individual_scores |-> << >>, recommendations |-> << >> ]
    ELSE [ has_score |-> reply.has_score, overall_score |-> reply.overall_score,
           weaknesses |-> reply.weaknesses,
           individual_scores |-> reply.individual_scores,
           recommendations |-> reply.recommendations ]

\* json.loads(response_content), or the fallback dictionary of the except branch.
PerformEvaluation(reply) ==
    IF reply.kind = "malformed"
    THEN [ has_score |-> TRUE, overall_score |-> FallbackScore,
           weaknesses |-> << "JSON parsing failed" >>,
           individual_scores |-> << >>,
           recommendations |-> << "Review evaluation format" >> ]
    ELSE [ has_score |-> reply.has_score, overall_score |-> reply.overall_score,
           weaknesses |-> reply.weaknesses,
           individual_scores |-> reply.individual_scores,
           recommendations |-> reply.recommendations ]

\* evaluation.get('overall_score', 0)
OverallScore(evaluation) ==
    IF evaluation.has_score THEN evaluation.overall_score ELSE 0

RECURSIVE LowCriteria(_)
LowCriteria(scores) ==
    IF scores = << >> THEN << >>
    ELSE (IF Head(scores)[2] < LowCriterionLimit
          THEN << << "Improve", Head(scores)[1] >> >>
          ELSE << >>) \o LowCriteria(Tail(scores))

\* Directives with the low criteria first.
GenerateCorrectionInstructionsCriteriaFirst(evaluation) ==
    LowCriteria(evaluation.individual_scores)
    \o [ i \in 1..Len(evaluation.weaknesses) |->
          << "Address weakness", evaluation.weaknesses[i] >> ]
    \o [ i \in 1..Len(evaluation.recommendations) |->
          << "Implement", evaluation.recommendations[i] >> ]

\* _generate_correction_instructions: weaknesses, low criteria, recommendations.
GenerateCorrectionInstructions(evaluation) ==
    [ i \in 1..Len(evaluation.weaknesses) |->
          << "Address weakness", evaluation.weaknesses[i] >> ]
    \o LowCriteria(evaluation.individual_scores)
    \o [ i \in 1..Len(evaluation.recommendations) |->
          << "Implement", evaluation.recommendations[i] >> ]

\* A record whose previous_score is taken from the new evaluation.
CorrectionRecordUnchained(iteration, evaluation, new_evaluation, instructions) ==
    [ iteration |-> iteration,
      previous_score |-> OverallScore(new_evaluation),
      new_score |-> OverallScore(new_evaluation),
      corrections_applied |-> instructions,
      improvement |-> 0 ]

\* The dictionary appended to correction_history, lines 107-113.
CorrectionRecord(iteration, evaluation, new_evaluation, instructions) ==
    [ iteration |-> iteration,
      previous_score |-> OverallScore(evaluation),
      new_score |-> OverallScore(new_evaluation),
      corrections_applied |-> instructions,
      improvement |-> OverallScore(new_evaluation) - OverallScore(evaluation) ]

\* An artifact: the submitted text and the correction notes appended to it.
Artifact(item) == [ base |-> item, notes |-> << >> ]

\* _apply_corrections: item + "CORRECTIONS APPLIED: ..."
ApplyCorrections(item, instructions) ==
    [ item EXCEPT !.notes = Append(@, instructions) ]

\* The while condition of the correction loop.
LoopConditionOffByOne(count, cap) == count <= cap
LoopCondition(count, cap) == count < cap

\* The guard that opens the correction loop.
NeedsCorrectionInclusive(enable, evaluation, threshold) ==
    enable /\ OverallScore(evaluation) <= threshold
NeedsCorrection(enable, evaluation, threshold) ==
    enable /\ OverallScore(evaluation) < threshold

\* A break that is content with half the threshold.
ThresholdMetAtHalf(evaluation, threshold) == 2 * OverallScore(evaluation) >= threshold

\* The break at the end of an iteration.
ThresholdMet(evaluation, threshold) == OverallScore(evaluation) >= threshold

\* A cap that any given max_iterations replaces, 0 included.
CapAfterRequestIfGiven(cap, max_iterations) ==
    IF max_iterations # << >> THEN max_iterations[1] ELSE cap

\* The cap evaluate_with_corrections leaves on the agent: "if max_iterations:".
CapAfterRequest(cap, max_iterations) ==
    IF max_iterations # << >> /\ max_iterations[1] # 0
    THEN max_iterations[1]
    ELSE cap

\* _format_evaluation_response: the text shows the evaluation and the history.
FormatEvaluationResponse(evaluation, history) ==
    [ evaluation |-> evaluation,
      iterations |-> [ k \in 1..Len(history) |->
                         << history[k].iteration, history[k].previous_score,
                            history[k].new_score, history[k].improvement >> ] ]

\* The AgentResponse process returns: content, metadata, confidence, reasoning.
BuildResponse ==
    [ success |-> TRUE,
      content |-> FormatEvaluationResponse(evaluation_result, correction_history),
      confidence_score |-> IF OverallScore(evaluation_result) < ConfidenceCap
                           THEN OverallScore(evaluation_result) ELSE ConfidenceCap,
      reasoning |-> interaction_count,
      overall_score |-> OverallScore(evaluation_result),
      iterations_performed |-> interaction_count,
      corrections_enabled |-> enable_corrections,
      correction_history |-> correction_history,
      final_item |-> IF interaction_count > 0 THEN current_item
                     ELSE Artifact(item_to_evaluate) ]

\* ------------------------------------------------ EvaluationAgent actions

NoEvaluation == PerformEvaluation(MalformedReply)

EvalInit ==
    /\ max_interactions \in 0..MaxCap
    /\ pc = "idle"
    /\ item_to_evaluate = "docA"
    /\ enable_corrections = TRUE
    /\ correction_threshold = DefaultThreshold
    /\ evaluation_result = NoEvaluation
    /\ correction_history = << >>
    /\ current_item = Artifact("docA")
    /\ interaction_count = 0
    /\ response = << >>
    /\ evalLog = << >>
    /\ replyLog = << >>
    /\ entry = [ via |-> "none", max_iterations |-> << >>, cap_before |-> 0 ]
    /\ exit_reason = "none"
    /\ calls = 0
    /\ remembered = << >>

\* process, lines 72-90: read the inputs, evaluate once, decide whether to loop.
ProcessBegin(item, enable, threshold, reply, via, max_iterations) ==
    /\ pc = "idle"
    /\ calls < MaxCalls
    /\ calls' = calls + 1
    /\ entry' = [ via |-> via, max_iterations |-> max_iterations,
                  cap_before |-> max_interactions ]
    /\ item_to_evaluate' = item
    /\ enable_corrections' = enable
    /\ correction_threshold' = threshold
    /\ evaluation_result' = PerformEvaluation(reply)
    /\ evalLog' = << OverallScore(PerformEvaluation(reply)) >>
    /\ replyLog' = << reply.kind >>
    /\ correction_history' = << >>
    /\ current_item' = Artifact(item)
    /\ interaction_count' = 0
    /\ response' = << >>
    /\ IF NeedsCorrection(enable, PerformEvaluation(reply), threshold)
       THEN pc' = "loop" /\ exit_reason' = "none"
       ELSE /\ pc' = "return"
            /\ exit_reason' = IF enable THEN "initial_pass" ELSE "disabled"
    /\ UNCHANGED << observer, remembered >>
    /\ UNCHANGED outsideEval

\* A caller invokes process(input_data) directly.
Process ==
    \E item \in Items, enable \in BOOLEAN, threshold \in Thresholds, reply \in Replies :
        /\ ProcessBegin(item, enable, threshold, reply, "process", << >>)
        /\ UNCHANGED max_interactions

\* A caller invokes evaluate_with_corrections(item, max_iterations=...).
EvaluateWithCorrections ==
    \E item \in Items, reply \in Replies,
       max_iterations \in { << >> } \cup { << n >> : n \in 0..MaxCap } :
        /\ max_interactions' = CapAfterRequest(max_interactions, max_iterations)
        /\ ProcessBegin(item, TRUE, DefaultThreshold, reply,
                        "evaluate_with_corrections", max_iterations)

\* One pass of the while body, lines 91-121.
CorrectionIteration ==
    \E reply \in Replies :
        LET instructions == GenerateCorrectionInstructions(evaluation_result)
            corrected_item == ApplyCorrections(current_item, instructions)
            new_evaluation == PerformEvaluation(reply)
        IN  /\ pc = "loop"
            /\ LoopCondition(interaction_count, max_interactions)
            /\ interaction_count' = interaction_count + 1
            /\ correction_history' = Append(correction_history,
                   CorrectionRecord(interaction_count + 1, evaluation_result,
                                    new_evaluation, instructions))
            /\ evalLog' = Append(evalLog, OverallScore(new_evaluation))
            /\ replyLog' = Append(replyLog, reply.kind)
            /\ evaluation_result' = new_evaluation
            /\ current_item' = corrected_item
            /\ IF ThresholdMet(new_evaluation, correction_threshold)
               THEN pc' = "return" /\ exit_reason' = "threshold_met"
               ELSE pc' = "loop" /\ exit_reason' = "none"
            /\ UNCHANGED << max_interactions, item_to_evaluate, enable_corrections,
                            correction_threshold, response, entry, calls,
                            observer, remembered >>
            /\ UNCHANGED outsideEval

\* The while condition is false: the cap is reached with the score still low.
LoopExit ==
    /\ pc = "loop"
    /\ ~ LoopCondition(interaction_count, max_interactions)
    /\ pc' = "return"
    /\ exit_reason' = "cap_reached"
    /\ UNCHANGED << max_interactions, item_to_evaluate, enable_corrections,
                    correction_threshold, evaluation_result, correction_history,
                    current_item, interaction_count, response, evalLog, replyLog,
                    entry, calls, observer, remembered >>
    /\ UNCHANGED outsideEval

\* return AgentResponse(...), lines 123-137.
Return ==
    /\ pc = "return"
    /\ pc' = "done"
    /\ response' = << BuildResponse >>
    /\ remembered' = IF observer /\ calls = 1
                     THEN << [ result |-> BuildResponse, exit_reason |-> exit_reason ] >>
                     ELSE remembered
    /\ UNCHANGED << max_interactions, item_to_evaluate, enable_corrections,
                    correction_threshold, evaluation_result, correction_history,
                    current_item, interaction_count, evalLog, replyLog, entry,
                    exit_reason, calls, observer >>
    /\ UNCHANGED outsideEval

\* The caller has the response; the activation record of process is gone.
Release ==
    /\ pc = "done"
    /\ calls < MaxCalls
    /\ pc' = "idle"
    /\ item_to_evaluate' = "docA"
    /\ enable_corrections' = TRUE
    /\ correction_threshold' = DefaultThreshold
    /\ evaluation_result' = NoEvaluation
    /\ correction_history' = << >>
    /\ current_item' = Artifact("docA")
    /\ interaction_count' = 0
    /\ response' = << >>
    /\ evalLog' = << >>
    /\ replyLog' = << >>
    /\ entry' = [ via |-> "none", max_iterations |-> << >>, cap_before |-> 0 ]
    /\ exit_reason' = "none"
    /\ UNCHANGED << max_interactions, calls, observer, remembered >>
    /\ UNCHANGED outsideEval

EvalNext ==
    \/ Process
    \/ EvaluateWithCorrections
    \/ CorrectionIteration
    \/ LoopExit
    \/ Return
    \/ Release


\* =====================================================================
\* RoutingAgent
\* =====================================================================

\* 1.0 in the unit of the routing scores, and the weights of the lexical blend.
One == 61600
KeywordWeight == 24640         \* 0.4
TaskTypeWeight == 18480        \* 0.3
ComplexityWeight == 12320      \* 0.2
DomainWeight == 6160           \* 0.1
PreferredBonus == 6160         \* 0.1
AlternativeThreshold == 18480  \* 0.3
MaxAlternatives == 3           \* alternatives[:3], sorted_agents[1:4]
SemanticOffset == 6160         \* + 0.1
SemanticCap == 58520           \* 0.95
LongTextHigh == 2000           \* len(text) / 1000 > 2
LongTextMedium == 1000         \* len(text) / 1000 > 1

Min(a, b) == IF a < b THEN a ELSE b

\* F(v), with v computed once (a local variable assigned before its uses).
With(v, F(_)) == CHOOSE r \in { F(x) : x \in { v } } : TRUE

\* ------------------------------------------------------- task texts

\* A task text is a sequence of lower-case words separated by single blanks.
\* WordAtoms(w) lists the literals of the analyser (keywords, pattern parts,
\* indicator words) that are substrings of the word w; no literal of the
\* analyser that contains a blank is made of these words.
Words == { "evaluate", "plan", "action", "information", "domain", "research",
           "comprehensive" }

\* "evaluate the quality of our documentation"
ScenarioA == << "evaluate", "the", "quality", "of", "our", "documentation" >>

\* A text of one word of 2000 letters "a": with the blank that process puts
\* between text and context it has 2001 characters, and no literal of the
\* analyser occurs in it.
LongText == << "a{2000}" >>

\* Every keyword of RAGKnowledgePromptAgent, in an order that matches four
\* research patterns.
ResearchText == << "retrieve", "search", "source", "reference", "lookup", "find",
                  "information", "research", "data", "facts" >>

\* The same keywords in an order that matches two research patterns, and two
\* words that match two evaluation patterns.
MixedText == << "information", "retrieve", "search", "source", "reference", "lookup",
               "find", "research", "data", "facts", "evaluate", "score" >>

\* Every keyword of EvaluationAgent.
EvaluationText == << "evaluate", "assess", "score", "quality", "feedback", "review",
                    "grade", "measure", "analyze", "critique", "audit" >>

LongerTexts == { ScenarioA, LongText, ResearchText, MixedText, EvaluationText }

WordAtoms(w) ==
    CASE w = "evaluate"      -> { "evaluate" }
      [] w = "plan"          -> { "plan" }
      [] w = "action"        -> { "action" }
      [] w = "information"   -> { "information", "format", "for" }
      [] w = "domain"        -> { "domain" }
      [] w = "research"      -> { "research", "search" }
      [] w = "comprehensive" -> { "comprehensive" }
      [] w = "quality"       -> { "quality" }
      [] w = "documentation" -> { "documentation" }
      [] w \in { "retrieve", "search", "source", "reference", "lookup", "find", "data",
                 "facts", "score", "assess", "feedback", "review", "grade", "measure",
                 "analyze", "critique", "audit" } -> { w }
      [] OTHER               -> { }

WordLength(w) ==
    CASE w = "evaluate"      -> 8
      [] w = "plan"          -> 4
      [] w = "action"        -> 6
      [] w = "information"   -> 11
      [] w = "domain"        -> 6
      [] w = "research"      -> 8
      [] w = "comprehensive" -> 13
      [] w = "the"           -> 3
      [] w = "quality"       -> 7
      [] w = "of"            -> 2
      [] w = "our"           -> 3
      [] w = "documentation" -> 13
      [] w = "a{2000}"       -> 2000
      [] w \in { "find", "data" } -> 4
      [] w \in { "facts", "score", "grade", "audit" } -> 5
      [] w \in { "search", "source", "lookup", "assess", "review" } -> 6
      [] w \in { "measure", "analyze" } -> 7
      [] w \in { "retrieve", "feedback", "critique" } -> 8
      [] w = "reference"     -> 9
      [] OTHER               -> 0

RECURSIVE SeqsUpTo(_, _)
SeqsUpTo(S, n) ==
    IF n = 0 THEN { << >> }
    ELSE LET shorter == SeqsUpTo(S, n - 1)
         IN  shorter \cup { Append(t, w) : t \in shorter, w \in S }

Texts == SeqsUpTo(Words, MaxWords) \cup LongerTexts

\* The literals of the analyser that occur in the text.
TextAtoms(text) == UNION { WordAtoms(text[i]) : i \in 1..Len(text) }

\* "literal in text"
InText(literal, text) == literal \in TextAtoms(text)

RECURSIVE SumLengths(_)
SumLengths(text) ==
    IF text = << >> THEN 0 ELSE WordLength(Head(text)) + 1 + SumLengths(Tail(text))

\* len(combined_text) for f"{task_description} {context}" with an empty context
TextLength(text) == IF text = << >> THEN 1 ELSE SumLengths(text)

\* len(re.findall(pattern, text)) for a pattern "a.*b.*c" given as << a, b, c >>:
\* on one line the greedy ".*" leaves at most one match.
RECURSIVE PatternFound(_, _)
PatternFound(pattern, text) ==
    IF pattern = << >> THEN TRUE
    ELSE \E i \in 1..Len(text) :
            /\ Head(pattern) \in WordAtoms(text[i])
            /\ PatternFound(Tail(pattern), SubSeq(text, i + 1, Len(text)))

PatternCount(pattern, text) == IF PatternFound(pattern, text) THEN 1 ELSE 0

RECURSIVE GroupScore(_, _)
GroupScore(patterns, text) ==
    IF patterns = << >> THEN 0
    ELSE PatternCount(Head(patterns), text) + GroupScore(Tail(patterns), text)

\* max(d, key=d.get) for a dictionary given as the sequence of its keys in
\* insertion order and the sequence of their values: the first key whose value
\* is the largest.
FirstMaxIndexLast(values) ==
    CHOOSE i \in 1..Len(values) :
        /\ \A j \in 1..Len(values) : values[j] <= values[i]
        /\ \A j \in (i + 1)..Len(values) : values[j] < values[i]
FirstMaxIndex(values) ==
    CHOOSE i \in 1..Len(values) :
        /\ \A j \in 1..Len(values) : values[j] <= values[i]
        /\ \A j \in 1..(i - 1) : values[j] < values[i]

\* ---------------------------------------------------- Task Analyzer

TaskTypeNames == << "project_management", "evaluation", "planning", "enhancement", "research" >>

TaskPatterns ==
    << << << "project", "plan" >>, << "manage", "project" >>, << "timeline", "project" >>,
          << "resource", "allocation" >>, << "risk", "assessment" >>,
          << "stakeholder", "management" >> >>,
       << << "evaluate" >>, << "assess", "quality" >>, << "review", "deliverable" >>,
          << "score" >>, << "feedback" >>, << "quality", "check" >> >>,
       << << "create", "plan" >>, << "action", "plan" >>, << "step", "by", "step" >>,
          << "implementation", "strategy" >>, << "breakdown", "task" >> >>,
       << << "improve", "prompt" >>, << "enhance" >>, << "optimize" >>, << "refine" >>,
          << "better", "structure" >> >>,
       << << "find", "information" >>, << "research" >>, << "lookup" >>,
          << "retrieve", "knowledge" >>, << "search", "for" >> >> >>

\* A classifier that never finds a pattern.
ClassifyTaskGeneral(text) == "general"

\* _classify_task_advanced
ClassifyTaskAdvanced(text) ==
    With([ k \in 1..Len(TaskTypeNames) |-> GroupScore(TaskPatterns[k], text) ],
         LAMBDA scores : IF scores[FirstMaxIndex(scores)] > 0
                         THEN TaskTypeNames[FirstMaxIndex(scores)]
                         ELSE "general")

ComplexityLevels == << "high", "medium", "low" >>

ComplexityIndicators ==
    << { "complex", "comprehensive", "detailed", "multi-step", "integration",
         "enterprise", "advanced", "sophisticated", "intricate" },
       { "moderate", "standard", "typical", "regular", "normal", "intermediate",
         "balanced" },
       { "simple", "basic", "quick", "straightforward", "minimal", "elementary",
         "fundamental" } >>

\* _assess_complexity_detailed
AssessComplexityDetailed(text) ==
    With([ k \in 1..3 |->
              Cardinality(ComplexityIndicators[k] \cap TextAtoms(text))
              + (IF k = 1 /\ TextLength(text) > LongTextHigh THEN 2 ELSE 0)
              + (IF k = 2 /\ TextLength(text) <= LongTextHigh
                          /\ TextLength(text) > LongTextMedium THEN 1 ELSE 0) ],
         LAMBDA scores : IF scores[FirstMaxIndex(scores)] > 0
                         THEN ComplexityLevels[FirstMaxIndex(scores)]
                         ELSE "medium")

DomainNames == << "project_management", "software_development", "quality_assurance",
                  "documentation", "research" >>

DomainPatterns ==
    << << << "project", "management" >>, << "timeline", "planning" >>,
          << "resource", "allocation" >>, << "stakeholder", "engagement" >>,
          << "risk", "management" >> >>,
       << << "software", "development" >>, << "code", "review" >>,
          << "application", "development" >>, << "programming" >>,
          << "technical", "implementation" >> >>,
       << << "quality", "assurance" >>, << "testing" >>, << "evaluation", "quality" >>,
          << "assessment" >>, << "review", "process" >> >>,
       << << "documentation" >>, << "technical", "writing" >>, << "user", "guide" >>,
          << "specification" >>, << "manual", "creation" >> >>,
       << << "research" >>, << "investigation" >>, << "analysis" >>, << "study" >>,
          << "exploration" >> >> >>

\* _identify_domain_advanced
IdentifyDomainAdvanced(text) ==
    With([ k \in 1..Len(DomainNames) |-> GroupScore(DomainPatterns[k], text) ],
         LAMBDA scores : IF scores[FirstMaxIndex(scores)] > 0
                         THEN DomainNames[FirstMaxIndex(scores)]
                         ELSE "general")

MultiAgentIndicators ==
    { "comprehensive", "end-to-end", "complete", "full", "integrated", "multiple phases",
      "various aspects", "different perspectives", "holistic approach", "multi-faceted" }

\* _assess_multi_agent_requirement
AssessMultiAgentRequirement(text) == MultiAgentIndicators \cap TextAtoms(text) # { }

\* --------------------------------------------- Capability Registry (lexical)

\* agent_capabilities, in registration (dictionary insertion) order.
Agents == << "ProjectManagerAgent", "AugmentedPromptAgent", "KnowledgeAugmentedPromptAgent",
             "RAGKnowledgePromptAgent", "EvaluationAgent", "ActionPlanningAgent" >>

Keywords ==
    << << "project", "plan", "timeline", "milestone", "resource", "risk", "stakeholder",
          "budget", "scope", "deliverable", "schedule", "coordination", "management",
          "planning" >>,
       << "prompt", "enhance", "improve", "structure", "clarity", "context", "optimize",
          "refine", "format", "template" >>,
       << "knowledge", "expertise", "best_practice", "framework", "methodology", "domain",
          "standard", "guideline", "principle", "approach" >>,
       << "retrieve", "search", "source", "reference", "lookup", "find", "information",
          "research", "data", "facts" >>,
       << "evaluate", "assess", "score", "quality", "feedback", "review", "grade",
          "measure", "analyze", "critique", "audit" >>,
       << "action", "plan", "step", "task", "implement", "execute", "strategy",
          "breakdown", "sequence", "workflow", "process" >> >>

TaskTypes ==
    << { "planning", "management", "coordination", "oversight" },
       { "enhancement", "optimization", "formatting" },
       { "knowledge_integration", "expertise_application" },
       { "research", "information_gathering", "fact_checking" },
       { "evaluation", "assessment", "review", "analysis" },
       { "planning", "implementation", "process_design" } >>

ComplexityHandling ==
    << { "low", "medium", "high" }, { "low", "medium" }, { "medium", "high" },
       { "medium", "high" }, { "low", "medium", "high" }, { "low", "medium", "high" } >>

\* The domain tags that are substrings of ' '.join(capabilities['specialties']):
\* only 'research', in 'research_augmentation' of RAGKnowledgePromptAgent.
SpecialtyDomains ==
    << { }, { }, { }, { "research" }, { }, { } >>

\* _extract_routing_keywords: the keywords of agent k found in the text (no
\* keyword is listed twice, so the set has as many members as the list)
FoundKeywords(k, text) ==
    { Keywords[k][i] : i \in 1..Len(Keywords[k]) } \cap TextAtoms(text)

\* _analyze_task_comprehensively (the parts routing and selection read)
AnalyzeTask(text) ==
    [ classification |-> ClassifyTaskAdvanced(text),
      complexity |-> AssessComplexityDetailed(text),
      domain |-> IdentifyDomainAdvanced(text),
      keyword_hits |-> [ k \in 1..Len(Agents) |-> Cardinality(FoundKeywords(k, text)) ],
      multi_agent_required |-> AssessMultiAgentRequirement(text) ]

NoAnalysis ==
    [ classification |-> "general", complexity |-> "medium", domain |-> "general",
      keyword_hits |-> << >>, multi_agent_required |-> FALSE ]

\* ------------------------------------------------ Router/Scorer (lexical)

PreferredChoices ==
    { { },
      { "KnowledgeAugmentedPromptAgent", "RAGKnowledgePromptAgent" },
      { Agents[k] : k \in 1..Len(Agents) } }

\* The rounding of the float arithmetic of the scoring loop,
\*     score = 0; score += (k / n) * 0.4; += 0.3; += 0.2; += 0.1; += 0.1
\* (each += only when its condition holds), for n = 10, 11, 14 keywords: row
\* k + 1, column 1 + 8 * type + 4 * complexity + 2 * domain + preferred, holds
\* the distance of the computed double from the double nearest to the exact
\* sum, in half units in the last place.
RoundingTable10 ==
    << << 0, 0, 0, 0, 0, 2, 2, 0, 0, 0, 0, 0, 0, 0, 0, 0 >>,
       << 2, 0, 0, 2, 2, 0, 0, 2, -2, -2, -2, -2, 0, 0, 0, 0 >>,
       << 2, 2, 2, 0, 0, 0, 0, 0, 0, 0, 0, 0, 2, 0, 0, 0 >>,
       << 0, 0, 0, 0, 0, 2, 2, 0, 0, 0, 0, 0, 0, 0, 0, 0 >>,
       << 2, 0, 0, 0, 2, 2, 2, 0, 0, 0, 0, 0, 0, 0, 0, 0 >>,
       << 0, 2, 2, 0, 0, 0, 0, 0, 0, 0, 0, 0, 0, -2, -2, -2 >>,
       << 0, -2, -2, -2, 0, 0, 0, 0, 0, 0, 0, 0, 0, 0, 0, 0 >>,
       << -2, 0, 0, 0, 0, 0, 0, -2, 0, -2, -2, -2, 0, 0, 0, 0 >>,
       << 2, 2, 2, 0, 0, 0, 0, 0, 2, 2, 2, 2, 2, 0, 0, 0 >>,
       << 2, 2, 2, 0, 0, 0, 0, 0, 0, 0, 0, 0, 2, 2, 2, 0 >>,
       << 0, 0, 0, 0, 2, 2, 2, 0, 0, -2, -2, -2, -2, -1, -1, -2 >> >>

RoundingTable11 ==
    << << 0, 0, 0, 0, 0, 2, 2, 0, 0, 0, 0, 0, 0, 0, 0, 0 >>,
       << 2, 2, 2, 2, 2, 2, 2, 2, 0, 2, 2, 0, 0, 0, 0, 0 >>,
       << 2, 0, 0, 0, 2, 2, 2, 2, 0, 2, 2, 0, 0, 0, 0, 0 >>,
       << 0, 2, 2, 0, 0, -2, -2, 0, -2, 0, 0, -2, 0, 0, 0, 0 >>,
       << 2, 2, 2, 0, 0, 0, 0, 0, 0, 0, 0, -2, 0, 0, 0, 0 >>,
       << 0, 2, 2, 0, 0, 0, 0, 0, 0, 0, 0, 0, 2, 0, 0, 0 >>,
       << 0, 0, 0, 2, 2, 0, 0, 0, 0, 0, 0, 0, 2, 0, 0, 0 >>,
       << 2, 2, 2, 2, 2, 0, 0, 0, 0, 0, 0, 0, 2, 2, 2, 0 >>,
       << 2, 2, 2, 2, 2, 0, 0, 0, 0, 0, 0, 0, 2, 2, 2, 0 >>,
       << 2, 4, 4, 2, 2, 0, 0, 0, 0, 0, 0, 0, 2, 2, 2, 0 >>,
       << 0, 0, 0, 0, 2, 0, 0, 0, -2, -2, -2, -2, -2, -2, -2, -2 >>,
       << 0, 0, 0, 0, 2, 2, 2, 0, 0, -2, -2, -2, -2, -1, -1, -2 >> >>

RoundingTable14 ==
    << << 0, 0, 0, 0, 0, 2, 2, 0, 0, 0, 0, 0, 0, 0, 0, 0 >>,
       << 0, 2, 2, 2, 2, 2, 2, 2, 0, 2, 2, 0, 0, 0, 0, 0 >>,
       << 0, 0, 0, 0, 2, 2, 2, 2, 0, 2, 2, 0, 0, 0, 0, 0 >>,
       << 0, 0, 0, 0, 0, -2, -2, -2, -2, -2, -2, -2, -2, -2, -2, -2 >>,
       << 0, 2, 2, 0, 0, -2, -2, 0, -2, 0, 0, -2, 0, 0, 0, 0 >>,
       << 2, 2, 2, 0, 0, 0, 0, 0, 0, 0, 0, -2, -2, -2, -2, -2 >>,
       << 0, 2, 2, 0, 0, 0, 0, 0, 0, 0, 0, 0, 2, 0, 0, 0 >>,
       << 0, 2, 2, 0, 0, 0, 0, 0, 0, 0, 0, 0, 0, -2, -2, -2 >>,
       << 0, 0, 0, 2, 2, 0, 0, 0, 0, 0, 0, 0, 2, 0, 0, 0 >>,
       << 2, 2, 2, 2, 2, 0, 0, 0, 0, 0, 0, 0, 0, 0, 0, -2 >>,
       << 2, 2, 2, 2, 2, 0, 0, 0, 0, 0, 0, 0, 2, 2, 2, 0 >>,
       << 0, -2, -2, 0, 0, -2, -2, -2, 0, 0, 0, 0, 0, 0, 0, 0 >>,
       << 0, 0, 0, 0, 2, 0, 0, 0, -2, -2, -2, -2, -2, -2, -2, -2 >>,
       << 0, 0, 0, 0, 0, 0, 0, -2, 2, 0, 0, 0, 0, 0, 0, 0 >>,
       << 0, 0, 0, 0, 2, 2, 2, 0, 0, -2, -2, -2, -2, -1, -1, -2 >> >>

RoundingTable(n) ==
    CASE n = 10 -> RoundingTable10
      [] n = 11 -> RoundingTable11
      [] n = 14 -> RoundingTable14

Flag(b) == IF b THEN 1 ELSE 0

\* One pass of the scoring loop of _make_routing_decision, for agent k, without
\* its last line.
BlendedScore(k, analysis, preferred) ==
    LET type == Flag(analysis.classification \in TaskTypes[k])
        complexity == Flag(analysis.complexity \in ComplexityHandling[k])
        domain == Flag(analysis.domain \in SpecialtyDomains[k])
        bonus == Flag(Agents[k] \in preferred)
    IN  (analysis.keyword_hits[k] * KeywordWeight) \div Len(Keywords[k])
        + type * TaskTypeWeight
        + complexity * ComplexityWeight
        + domain * DomainWeight
        + bonus * PreferredBonus
        + RoundingTable(Len(Keywords[k]))[analysis.keyword_hits[k] + 1]
                                         [1 + 8 * type + 4 * complexity + 2 * domain + bonus]

\* The score without its cap.
AgentScoreUncapped(k, analysis, preferred) == BlendedScore(k, analysis, preferred)

\* agent_scores[agent_name] = min(score, 1.0)
AgentScore(k, analysis, preferred) == Min(BlendedScore(k, analysis, preferred), One)

\* sorted(items, key=score, reverse=True): Python's sort is stable, also with
\* reverse=True, so entries with equal scores keep their dictionary order.  The
\* result is given as the sequence of the entries' indices.
SortedAscending(scores) ==
    LET n == Len(scores)
        place(i) == 1 + Cardinality({ j \in 1..n :
                          scores[j] < scores[i] \/ (scores[j] = scores[i] /\ j < i) })
    IN  [ p \in 1..n |-> CHOOSE i \in 1..n : place(i) = p ]
SortedDescending(scores) ==
    LET n == Len(scores)
        place(i) == 1 + Cardinality({ j \in 1..n :
                          scores[j] > scores[i] \/ (scores[j] = scores[i] /\ j < i) })
    IN  [ p \in 1..n |-> CHOOSE i \in 1..n : place(i) = p ]

RECURSIVE SelectSeq2(_, _, _)
\* the entries of order, in order, that pass the test keep[i]
SelectSeq2(order, keep, k) ==
    IF k > Len(order) THEN << >>
    ELSE (IF keep[order[k]] THEN << order[k] >> ELSE << >>) \o SelectSeq2(order, keep, k + 1)

FirstN(s, n) == SubSeq(s, 1, Min(Len(s), n))

\* The alternatives loop of _make_routing_decision and the [:3] of its return.
LexicalAlternatives(scores, primary) ==
    LET order == SortedDescending(scores)
        keep == [ i \in 1..Len(scores) |-> i # primary /\ scores[i] > AlternativeThreshold ]
        listed == SelectSeq2(order, keep, 1)
    IN  [ p \in 1..Len(FirstN(listed, MaxAlternatives)) |->
            [ agent |-> Agents[listed[p]], score |-> scores[listed[p]] ] ]

\* primary_agent = max(agent_scores, key=agent_scores.get)
PrimaryIndex(scores) == FirstMaxIndex(scores)

\* The name the decision carries as primary_agent.
PrimaryNameIfAboveThreshold(scores, primary) ==
    IF scores[primary] > AlternativeThreshold THEN Agents[primary] ELSE "none"
PrimaryName(scores, primary) == Agents[primary]

\* _make_routing_decision and the metadata process builds from it.
MakeRoutingDecision(analysis, preferred) ==
    With([ k \in 1..Len(Agents) |-> AgentScore(k, analysis, preferred) ],
         LAMBDA scores :
            With(PrimaryIndex(scores),
                 LAMBDA primary :
                    [ method |-> "lexical",
                      primary_agent |-> PrimaryName(scores, primary),
                      routing_confidence |-> scores[primary],
                      confidence_score |-> scores[primary],
                      alternatives |-> LexicalAlternatives(scores, primary),
                      all_names |-> Agents,
                      all_scores |-> scores,
                      task_analysis |-> analysis ]))

\* ----------------------------------------------- Router/Scorer (semantic)

\* route_configs, in registration order.
RouteAgents == << "ProjectManagerAgent", "ActionPlanningAgent", "EvaluationAgent",
                  "DirectPromptAgent" >>

\* Embedding vectors.  The real ones have 3072 components; two are kept, and
\* vectors whose norm is a whole number, so that every cosine is exact.
Vectors == { << 0, 0 >>, << 1, 0 >>, << 0, 1 >>, << -1, 0 >>, << 3, 4 >> }

\* np.random.rand(3072), the fallback of _get_embedding: components in [0, 1).
RandomVectors == { v \in Vectors : v[1] >= 0 /\ v[2] >= 0 /\ v # << 0, 0 >> }

Dot(v1, v2) == v1[1] * v2[1] + v1[2] * v2[2]

\* np.linalg.norm
Norm(v) == CHOOSE n \in 0..(Dot(v, v)) : n * n = Dot(v, v)

\* _cosine_similarity
CosineSimilarity(v1, v2) ==
    IF Norm(v1) = 0 \/ Norm(v2) = 0
    THEN 0
    ELSE (Dot(v1, v2) * One) \div (Norm(v1) * Norm(v2))

\* sorted_agents[1:4]
SemanticAlternatives(similarities, order) ==
    LET rest == SubSeq(order, 2, Min(Len(order), 1 + MaxAlternatives))
    IN  [ p \in 1..Len(rest) |->
            [ agent |-> RouteAgents[rest[p]], score |-> similarities[rest[p]] ] ]

\* process of routing_agent_fixed.py, lines 106-169, from the task's embedding.
SemanticDecision(embeddings, task_vector) ==
    With([ k \in 1..Len(RouteAgents) |-> CosineSimilarity(task_vector, embeddings[k]) ],
         LAMBDA similarities :
            With(SortedDescending(similarities),
                 LAMBDA order :
                    [ method |-> "cosine_similarity",
                      primary_agent |-> RouteAgents[order[1]],
                      routing_confidence |-> similarities[order[1]],
                      confidence_score |-> Min(SemanticCap,
                                               similarities[order[1]] + SemanticOffset),
                      alternatives |-> SemanticAlternatives(similarities, order),
                      all_names |-> RouteAgents,
                      all_scores |-> similarities,
                      task_analysis |-> NoAnalysis ]))

\* ---------------------------------------------------- routing actions

RouteInit ==
    /\ router \in { "lexical", "semantic" }
    /\ route_embeddings \in IF router = "semantic"
                            THEN [ 1..Len(RouteAgents) -> Vectors ]
                            ELSE { << >> }
    /\ rt_pc = "idle"
    /\ task_text = << >>
    /\ preferred_agents = { }
    /\ task_embedding = << >>
    /\ embed_ok = TRUE
    /\ routing = << >>
    /\ routes = 0
    /\ first_routing = << >>

\* The state of the component that a specification leaves out.
EvalIdle == EvalInit /\ max_interactions = 0 /\ observer = FALSE
RouteIdle ==
    /\ router = "lexical"
    /\ route_embeddings = << >>
    /\ rt_pc = "idle"
    /\ task_text = << >>
    /\ preferred_agents = { }
    /\ task_embedding = << >>
    /\ embed_ok = TRUE
    /\ routing = << >>
    /\ routes = 0
    /\ repeat = FALSE
    /\ first_routing = << >>

\* A caller that repeats its first request gives the same text and the same
\* preferred agents again, and the embeddings API gives the same answer again.
Repeating == repeat /\ first_routing # << >>
TextsNow == IF Repeating THEN { first_routing[1].task_text } ELSE Texts
PreferredNow == IF Repeating THEN { first_routing[1].preferred_agents } ELSE PreferredChoices
AnswersNow == IF Repeating THEN { first_routing[1].embed_ok } ELSE BOOLEAN
VectorsNow(ok) ==
    IF ~ ok THEN RandomVectors
    ELSE IF Repeating THEN { first_routing[1].task_embedding[1] } ELSE Vectors

\* RoutingAgent.process of routing_agent.py
LexicalRoute ==
    /\ router = "lexical"
    /\ rt_pc = "idle"
    /\ routes < MaxRoutes
    /\ \E text \in TextsNow, preferred \in PreferredNow :
        \E analysis \in { AnalyzeTask(text) } :
            /\ task_text' = text
            /\ preferred_agents' = preferred
            /\ routing' = << MakeRoutingDecision(analysis, preferred) >>
    /\ routes' = routes + 1
    /\ rt_pc' = "routed"
    /\ UNCHANGED << router, route_embeddings, task_embedding, embed_ok, repeat,
                    first_routing >>
    /\ UNCHANGED outsideRoute

\* RoutingAgent.process of routing_agent_fixed.py: the embeddings API answers
\* with some vector, or fails and _get_embedding falls back to a random one.
SemanticRoute ==
    /\ router = "semantic"
    /\ rt_pc = "idle"
    /\ routes < MaxRoutes
    /\ \E ok \in AnswersNow :
         \E vector \in VectorsNow(ok) :
            /\ embed_ok' = ok
            /\ task_embedding' = << vector >>
            /\ routing' = << SemanticDecision(route_embeddings, vector) >>
    /\ routes' = routes + 1
    /\ rt_pc' = "routed"
    /\ UNCHANGED << router, route_embeddings, task_text, preferred_agents, repeat,
                    first_routing >>
    /\ UNCHANGED outsideRoute

\* The caller has the routing response; the router is ready for the next task.
RouteRelease ==
    /\ rt_pc = "routed"
    /\ routes < MaxRoutes
    /\ rt_pc' = "idle"
    /\ task_text' = << >>
    /\ preferred_agents' = { }
    /\ task_embedding' = << >>
    /\ embed_ok' = TRUE
    /\ routing' = << >>
    /\ first_routing' = IF repeat /\ first_routing = << >>
                        THEN << [ task_text |-> task_text,
                                  preferred_agents |-> preferred_agents,
                                  embed_ok |-> embed_ok,
                                  task_embedding |-> task_embedding,
                                  decision |-> routing[1] ] >>
                        ELSE first_routing
    /\ UNCHANGED << router, route_embeddings, routes, repeat >>
    /\ UNCHANGED outsideRoute

RouteNext ==
    \/ LexicalRoute
    \/ SemanticRoute
    \/ RouteRelease

\* =====================================================================
\* Workflow Selector (agentic_workflow.py, _execute_routed_workflow)
\* =====================================================================

SelectorThreshold == 49280     \* 0.8

\* The four methods _execute_routed_workflow dispatches to.
Workflows == { "comprehensive_multi_agent", "enhanced_project_management",
               "enhanced_action_planning", "enhanced_evaluation" }

\* The first test: multi_agent_required or confidence < 0.8.
NeedsComprehensiveBoth(multi_agent_required, confidence) ==
    multi_agent_required /\ confidence < SelectorThreshold
NeedsComprehensiveInclusive(multi_agent_required, confidence) ==
    multi_agent_required \/ confidence <= SelectorThreshold
NeedsComprehensive(multi_agent_required, confidence) ==
    multi_agent_required \/ confidence < SelectorThreshold

\* The if / elif chain of _execute_routed_workflow.
ExecuteRoutedWorkflow(analysis) ==
    IF NeedsComprehensive(analysis.multi_agent_required, analysis.confidence)
    THEN "comprehensive_multi_agent"
    ELSE IF analysis.primary_agent = "ProjectManagerAgent"
    THEN "enhanced_project_management"
    ELSE IF analysis.primary_agent = "ActionPlanningAgent"
    THEN "enhanced_action_planning"
    ELSE IF analysis.primary_agent = "EvaluationAgent"
    THEN "enhanced_evaluation"
    ELSE "comprehensive_multi_agent"

\* routing_analysis as _perform_enhanced_routing builds it from the metadata of
\* the lexical router: primary_agent, confidence, task_analysis.
RoutingAnalysisOf(decision) ==
    [ primary_agent |-> decision.primary_agent,
      confidence |-> decision.routing_confidence,
      multi_agent_required |-> decision.task_analysis.multi_agent_required ]

\* Confidence values around the test: 0, 0.5, the doubles next to 0.8, 0.8, 1.
ConfidenceLevels == { 0, One \div 2, SelectorThreshold - 2, SelectorThreshold,
                      SelectorThreshold + 2, One }

\* Providers a routing decision can name: those of either registry.
ProviderNames == { Agents[k] : k \in 1..Len(Agents) }
                 \cup { RouteAgents[k] : k \in 1..Len(RouteAgents) }

\* The arguments _execute_routed_workflow is called with: what the lexical
\* router returns for a task, or any provider, confidence and flag.
RoutingAnalyses ==
    { RoutingAnalysisOf(MakeRoutingDecision(AnalyzeTask(text), { })) : text \in Texts }
    \cup [ primary_agent : ProviderNames, confidence : ConfidenceLevels,
           multi_agent_required : BOOLEAN ]

SelectIdle ==
    /\ sel_pc = "idle"
    /\ routing_analysis = << >>
    /\ workflow = "none"
    /\ selections = 0

\* One call of _execute_routed_workflow.
SelectWorkflow ==
    /\ sel_pc = "idle"
    /\ selections < MaxSelections
    /\ \E analysis \in RoutingAnalyses :
           /\ routing_analysis' = << analysis >>
           /\ workflow' = ExecuteRoutedWorkflow(analysis)
    /\ sel_pc' = "selected"
    /\ selections' = selections + 1
    /\ UNCHANGED outsideSelect

\* The dispatched workflow has returned.
SelectRelease ==
    /\ sel_pc = "selected"
    /\ selections < MaxSelections
    /\ sel_pc' = "idle"
    /\ routing_analysis' = << >>
    /\ workflow' = "none"
    /\ UNCHANGED selections
    /\ UNCHANGED outsideSelect

SelectNext ==
    \/ SelectWorkflow
    \/ SelectRelease

\* process_project_request up to the dispatch: _perform_enhanced_routing asks
\* the lexical router through route_task, which passes no preferred agents,
\* and _execute_routed_workflow dispatches on what it answered.
RouteAndSelect ==
    /\ router = "lexical"
    /\ rt_pc = "idle"
    /\ sel_pc = "idle"
    /\ routes < MaxRoutes
    /\ \E text \in Texts :
        \E decision \in { MakeRoutingDecision(AnalyzeTask(text), { }) } :
            /\ task_text' = text
            /\ preferred_agents' = { }
            /\ routing' = << decision >>
            /\ routing_analysis' = << RoutingAnalysisOf(decision) >>
            /\ workflow' = ExecuteRoutedWorkflow(RoutingAnalysisOf(decision))
    /\ routes' = routes + 1
    /\ selections' = selections + 1
    /\ rt_pc' = "routed"
    /\ sel_pc' = "selected"
    /\ UNCHANGED << router, route_embeddings, task_embedding, embed_ok, repeat,
                    first_routing >>
    /\ UNCHANGED << evalVars, execVars >>

\* process_project_request has returned.
RouteAndSelectRelease ==
    /\ rt_pc = "routed"
    /\ sel_pc = "selected"
    /\ routes < MaxRoutes
    /\ rt_pc' = "idle"
    /\ sel_pc' = "idle"
    /\ task_text' = << >>
    /\ preferred_agents' = { }
    /\ routing' = << >>
    /\ routing_analysis' = << >>
    /\ workflow' = "none"
    /\ UNCHANGED << router, route_embeddings, task_embedding, embed_ok, repeat,
                    first_routing, routes, selections >>
    /\ UNCHANGED << evalVars, execVars >>

RouteAndSelectNext ==
    \/ RouteAndSelect
    \/ RouteAndSelectRelease

\* =====================================================================
\* Workflow executors
\*   EnhancedAgenticWorkflow.execute_workflow   (agentic_workflow_fixed.py)
\*   AgenticWorkflow.run_workflow               (agentic_workflow_corrected.py)
\*   AgenticProjectManagementWorkflow.process_project_request
\*                                              (agentic_workflow.py)
\* A call of a capability provider returns or raises; which of the two is the
\* provider's choice.
\* =====================================================================

Orchestrators == { "enhanced", "corrected", "pipeline" }

\* The five _execute_step calls of execute_workflow, in order.
EnhancedPlan == << "routing_analysis", "primary_processing", "quality_evaluation",
                  "support_integration", "output_structuring" >>

\* The steps of the four workflows of agentic_workflow.py that append a record.
PipelinePlan(w) ==
    CASE w = "enhanced_project_management" ->
             << "knowledge_enhancement", "rag_knowledge_retrieval",
                "project_management_analysis", "action_planning" >>
      [] w = "enhanced_action_planning" ->
             << "prompt_enhancement", "knowledge_enhancement",
                "action_plan_creation", "pm_validation" >>
      [] w = "enhanced_evaluation" ->
             << "evaluation_prompt_enhancement", "comprehensive_evaluation",
                "improvement_planning" >>
      [] w = "comprehensive_multi_agent" ->
             << "prompt_enhancement", "knowledge_enhancement", "rag_knowledge_retrieval",
                "project_management_analysis", "action_planning", "quality_evaluation" >>

\* workflow_steps extracted from the action plan: k steps.
CorrectedPlan(k) == [ i \in 1..k |-> "workflow_step" ]

\* The plans an execution can follow once its first provider call has returned.
Plans(kind) ==
    CASE kind = "enhanced" -> { EnhancedPlan }
      [] kind = "corrected" -> { CorrectedPlan(k) : k \in 0..MaxPlan }
      [] kind = "pipeline" -> { PipelinePlan(w) : w \in Workflows }

\* Whether the executor calls a provider before the first plan step: the
\* action planning agent (run_workflow), the router (process_project_request).
CallsProviderFirst(kind) == kind # "enhanced"

\* ---------------------------------------------------- overall confidence
\* A confidence is a non-negative double.  Two ranges of the doubles are kept
\* apart: the quotients num/den of hundredths, where the arithmetic of the
\* model is exact (these values are compared with 0 and 1 and with values
\* computed the same way, which the rounding of a sum or of a quotient does
\* not change), and the multiples units * 2^-1074 of the smallest positive
\* double, where sums and products are exact and a quotient is rounded to
\* the nearest multiple, ties to the even one.  Added to a value of the
\* first range, a value of the second is lost.
Hundredths(n) == [ num |-> n, den |-> 1, units |-> 0 ]

\* 5e-324, the smallest positive double.
SmallestDouble == [ num |-> 0, den |-> 1, units |-> 1 ]

\* a + b
Plus(a, b) ==
    [ num |-> a.num * b.den + b.num * a.den,
      den |-> a.den * b.den,
      units |-> IF a.num > 0 \/ b.num > 0 THEN 0 ELSE a.units + b.units ]

\* a * i for an integer i >= 0
Times(a, i) == [ num |-> a.num * i, den |-> a.den, units |-> a.units * i ]

\* k / n rounded to the nearest integer, ties to even.
RoundHalfEven(k, n) ==
    IF 2 * (k % n) < n THEN k \div n
    ELSE IF 2 * (k % n) > n THEN (k \div n) + 1
    ELSE IF (k \div n) % 2 = 0 THEN k \div n
    ELSE (k \div n) + 1

\* a / n for an integer n > 0
DividedBy(a, n) ==
    [ num |-> a.num, den |-> a.den * n, units |-> RoundHalfEven(a.units, n) ]

\* The confidence of a record whose result has no confidence_score: 0.8.
DefaultStepConfidence == 80

\* What the responses of the providers can carry as confidence_score.
Grades == { Hundredths(0), SmallestDouble, Hundredths(100) }

\* The confidence a step that returned records: the confidence_score of the
\* AgentResponse, or 0.8 for the dictionaries of the last two steps of
\* execute_workflow.
StepGrades(kind, name) ==
    IF kind = "enhanced" /\ name \in { "support_integration", "output_structuring" }
    THEN { Hundredths(DefaultStepConfidence) }
    ELSE grades

\* sum(values)
RECURSIVE SumOf(_)
SumOf(values) ==
    IF values = << >> THEN Hundredths(0)
    ELSE Plus(SumOf(SubSeq(values, 1, Len(values) - 1)), values[Len(values)])

\* [step.get('confidence', 0.0) for step in steps]
ConfidencesOf(steps) ==
    [ i \in 1..Len(steps) |->
          IF steps[i].confidence = << >> THEN Hundredths(0) ELSE steps[i].confidence[1] ]

\* WorkflowSupportFunctions.calculate_workflow_confidence
CalculateWorkflowConfidence(step_confidences) ==
    IF step_confidences = << >> THEN Hundredths(0)
    ELSE DividedBy(SumOf([ i \in 1..Len(step_confidences) |->
                               Times(step_confidences[i], i) ]),
                   (Len(step_confidences) * (Len(step_confidences) + 1)) \div 2)

Successful(step) == step.success = "True"

\* The average over every record, failed ones included.
CalculateOverallConfidenceOfAll(steps) ==
    IF steps = << >> THEN Hundredths(0)
    ELSE DividedBy(SumOf(ConfidencesOf(steps)), Len(steps))

\* EnhancedAgenticWorkflow._calculate_overall_confidence, for
\* self.completed_steps = steps
CalculateOverallConfidence(steps) ==
    IF SelectSeq(steps, Successful) = << >> THEN Hundredths(0)
    ELSE DividedBy(SumOf(ConfidencesOf(SelectSeq(steps, Successful))),
                   Len(SelectSeq(steps, Successful)))

\* A ledger that already holds the record of the structuring step.
LedgerWithStructuringRecord(ledger, record) == Append(ledger, record)

\* self.completed_steps as the arguments of the output_structuring step and
\* _structure_final_output read it: the record of that step is appended
\* after _structure_final_output has returned.
LedgerSeenByStructuring(ledger, record) == ledger

\* _structure_final_output: the counts and the confidence it reports.
StructureFinalOutput(steps) ==
    [ overall_confidence |-> CalculateOverallConfidence(steps),
      processing_steps |-> Len(steps),
      total_steps |-> Len(steps) ]

\* ------------------------------------------------------------ records
\* The record a step that returned appends.  "success" is "absent" where the
\* record has no such key.  The last two fields are not in the code's record:
\* they tell which execution appended it and for which plan position.
CompletedStep(kind, name, e, position, confidence) ==
    [ step_name |-> name,
      success |-> IF kind = "enhanced" THEN "True" ELSE "absent",
      error |-> << >>,
      confidence |-> IF kind = "corrected" THEN << >> ELSE << confidence >>,
      by |-> e, position |-> position ]

\* The record _execute_step appends in its except branch.
FailedStepAsCompleted(name, e, position) ==
    [ step_name |-> name, success |-> "True", error |-> << >>,
      confidence |-> << Hundredths(0) >>, by |-> e, position |-> position ]
FailedStep(name, e, position) ==
    [ step_name |-> name, success |-> "False", error |-> << "str(e)" >>,
      confidence |-> << Hundredths(0) >>, by |-> e, position |-> position ]

\* The list a step of execution e appends to: self.completed_steps as it is
\* bound at that moment, or the local results['steps'] of the pipeline.
AppendTarget(kind, e) == IF kind = "pipeline" THEN ex[e].ledger ELSE self_steps

\* The ledger reference a result carries: "completed_steps": self.completed_steps
\* evaluated at the return; the pipeline's error response has none.
ReturnedLedger(kind, e, success) ==
    IF kind = "pipeline"
    THEN (IF success THEN ex[e].ledger ELSE 0)
    ELSE self_steps

IdleExecution ==
    [ pc |-> "idle", plan |-> << >>, next |-> 1, ledger |-> 0, result |-> << >>,
      invoked |-> << >>, raised |-> 0, structured |-> << >> ]

Active(e) == ex[e].pc \notin { "idle", "done" }

ExecInit ==
    /\ orchestrator \in Orchestrators
    /\ heap = IF orchestrator = "pipeline" THEN << >> ELSE << << >> >>
    /\ self_steps = IF orchestrator = "pipeline" THEN 0 ELSE 1
    /\ workflow_history = << >>
    /\ ex = [ e \in 1..MaxExecs |-> IdleExecution ]
    /\ inspection = << >>

ExecIdle ==
    /\ orchestrator = "enhanced"
    /\ heap = << << >> >>
    /\ self_steps = 1
    /\ workflow_history = << >>
    /\ threads = 1
    /\ ex = [ e \in 1..MaxExecs |-> IdleExecution ]
    /\ grades = { Hundredths(DefaultStepConfidence) }
    /\ inspection = << >>

\* A caller starts execution e: the statements up to the first plan step.
\* execute_workflow rebinds self.completed_steps to a new list; the pipeline
\* creates its local results['steps']; run_workflow creates nothing.
Start(e) ==
    /\ ex[e].pc = "idle"
    /\ \A d \in 1..(e - 1) : ex[d].pc # "idle"
    /\ Cardinality({ d \in 1..MaxExecs : Active(d) }) < threads
    /\ heap' = IF orchestrator = "corrected" THEN heap ELSE Append(heap, << >>)
    /\ self_steps' = IF orchestrator = "enhanced" THEN Len(heap) + 1 ELSE self_steps
    /\ \E returned \in (IF CallsProviderFirst(orchestrator) THEN BOOLEAN ELSE { TRUE }) :
         \E plan \in Plans(orchestrator) :
           ex' = [ ex EXCEPT ![e] =
                     [ @ EXCEPT !.pc = IF returned THEN "step" ELSE "aborting",
                                !.plan = IF returned THEN plan ELSE << >>,
                                !.ledger = IF orchestrator = "pipeline"
                                           THEN Len(heap) + 1 ELSE 0 ] ]
    /\ inspection' = << >>
    /\ UNCHANGED << orchestrator, workflow_history, threads, grades >>
    /\ UNCHANGED outsideExec

\* The provider of the next plan step returns: one record is appended.
StepReturns(e) ==
    /\ ex[e].pc = "step"
    /\ ex[e].next <= Len(ex[e].plan)
    /\ \E confidence \in StepGrades(orchestrator, ex[e].plan[ex[e].next]) :
        \E record \in { CompletedStep(orchestrator, ex[e].plan[ex[e].next], e,
                                       ex[e].next, confidence) } :
            /\ heap' = [ heap EXCEPT ![AppendTarget(orchestrator, e)] = Append(@, record) ]
            /\ ex' = [ ex EXCEPT ![e] =
                         [ @ EXCEPT !.next = @ + 1,
                                    !.invoked = Append(@, ex[e].next),
                                    !.structured =
                                        IF orchestrator = "enhanced"
                                           /\ ex[e].plan[ex[e].next] = "output_structuring"
                                        THEN << StructureFinalOutput(
                                                  LedgerSeenByStructuring(
                                                      heap[AppendTarget(orchestrator, e)],
                                                      record)) >>
                                        ELSE @ ] ]
    /\ inspection' = << >>
    /\ UNCHANGED << orchestrator, self_steps, workflow_history, threads, grades >>
    /\ UNCHANGED outsideExec

\* The provider of the next plan step raises.  _execute_step appends a failed
\* record and raises again; the other two executors have no record for it.
StepRaises(e) ==
    /\ ex[e].pc = "step"
    /\ ex[e].next <= Len(ex[e].plan)
    /\ heap' = IF orchestrator = "enhanced"
               THEN [ heap EXCEPT ![AppendTarget(orchestrator, e)] =
                        Append(@, FailedStep(ex[e].plan[ex[e].next], e, ex[e].next)) ]
               ELSE heap
    /\ ex' = [ ex EXCEPT ![e] = [ @ EXCEPT !.pc = "aborting",
                                           !.raised = ex[e].next,
                                           !.invoked = Append(@, ex[e].next) ] ]
    /\ inspection' = << >>
    /\ UNCHANGED << orchestrator, self_steps, workflow_history, threads, grades >>
    /\ UNCHANGED outsideExec

\* The overall confidence in the result of an execution, << >> where the
\* result has none: the pipeline's workflow computes it from its
\* confidence_scores, _format_final_output copies it from the structured
\* result, _handle_workflow_error gives 0.0, run_workflow and the pipeline's
\* error response give none.
ReportedConfidence(kind, e, success) ==
    CASE kind = "pipeline" ->
             IF success
             THEN << CalculateWorkflowConfidence(ConfidencesOf(heap[ex[e].ledger])) >>
             ELSE << >>
      [] kind = "enhanced" ->
             IF success THEN << ex[e].structured[1].overall_confidence >>
             ELSE << Hundredths(0) >>
      [] kind = "corrected" -> << >>

\* All plan steps returned: the result is built and returned.  The pipeline
\* first runs its evaluation, which can raise, and logs a successful run.
Finish(e) ==
    /\ ex[e].pc = "step"
    /\ ex[e].next > Len(ex[e].plan)
    /\ \E evaluated \in (IF orchestrator = "pipeline" THEN BOOLEAN ELSE { TRUE }) :
        /\ ex' = [ ex EXCEPT ![e] =
                     [ @ EXCEPT !.pc = "done",
                                !.result = << [ success |-> evaluated,
                                                ledger |-> ReturnedLedger(orchestrator, e, evaluated),
                                                overall_confidence |->
                                                    ReportedConfidence(orchestrator, e, evaluated),
                                                error |-> IF evaluated THEN << >>
                                                          ELSE << "str(e)" >> ] >> ] ]
        /\ workflow_history' = IF orchestrator = "pipeline" /\ evaluated
                               THEN Append(workflow_history, e)
                               ELSE workflow_history
    /\ inspection' = << >>
    /\ UNCHANGED << orchestrator, heap, self_steps, threads, grades >>
    /\ UNCHANGED outsideExec

\* The except branch of the executor: the error result is built and returned.
Abort(e) ==
    /\ ex[e].pc = "aborting"
    /\ ex' = [ ex EXCEPT ![e] =
                 [ @ EXCEPT !.pc = "done",
                            !.result = << [ success |-> FALSE,
                                            ledger |-> ReturnedLedger(orchestrator, e, FALSE),
                                            overall_confidence |->
                                                ReportedConfidence(orchestrator, e, FALSE),
                                            error |-> << "str(e)" >> ] >> ] ]
    /\ inspection' = << >>
    /\ UNCHANGED << orchestrator, heap, self_steps, workflow_history, threads, grades >>
    /\ UNCHANGED outsideExec

ExecNext ==
    \E e \in 1..MaxExecs :
        \/ Start(e)
        \/ StepReturns(e)
        \/ StepRaises(e)
        \/ Finish(e)
        \/ Abort(e)

\* A caller of the step-wise orchestrator asks for the overall confidence of
\* the ledger as it stands (as test_confidence_calculation does).
Inspect ==
    /\ orchestrator = "enhanced"
    /\ inspection = << >>
    /\ inspection' = << [ steps |-> heap[self_steps],
                          value |-> CalculateOverallConfidence(heap[self_steps]),
                          weighted |-> CalculateWorkflowConfidence(
                                           ConfidencesOf(heap[self_steps])) ] >>
    /\ UNCHANGED << orchestrator, heap, self_steps, workflow_history, threads, ex, grades >>
    /\ UNCHANGED outsideExec

\* A record of a ledger that a caller writes itself: the keys 'success' and
\* 'confidence' (the other fields say that no execution appended it).
AssignedRecord(success, confidence, position) ==
    [ step_name |-> "assigned",
      success |-> IF success THEN "True" ELSE "False",
      error |-> << >>,
      confidence |-> << confidence >>,
      by |-> 0, position |-> position ]

AssignedLedgers ==
    UNION { { [ i \in 1..n |-> AssignedRecord(choice[i][1], choice[i][2], i) ] :
                choice \in [ 1..n -> BOOLEAN \X Grades ] } : n \in 0..MaxSteps }

\* workflow.completed_steps = [...]: a caller of an orchestrator that runs no
\* execution binds the ledger to a list of its own, as
\* test_confidence_calculation does.  The list bound before is referred to
\* by nothing and is dropped.
AssignSteps ==
    /\ orchestrator = "enhanced"
    /\ \A e \in 1..MaxExecs : ex[e].pc = "idle"
    /\ \E steps \in AssignedLedgers :
         /\ heap' = << steps >>
         /\ self_steps' = 1
    /\ inspection' = << >>
    /\ UNCHANGED << orchestrator, workflow_history, threads, ex, grades >>
    /\ UNCHANGED outsideExec

AssignedNext ==
    \/ AssignSteps
    \/ Inspect

GradedNext ==
    \/ ExecNext
    \/ Inspect

\* =====================================================================
\* Specifications
\* =====================================================================

InitEval == EvalInit /\ observer = FALSE /\ RouteIdle /\ SelectIdle /\ ExecIdle
InitEvalPair == EvalInit /\ observer = TRUE /\ RouteIdle /\ SelectIdle /\ ExecIdle
InitRoute == RouteInit /\ repeat = FALSE /\ EvalIdle /\ SelectIdle /\ ExecIdle
InitRouteRepeat == RouteInit /\ repeat = TRUE /\ EvalIdle /\ SelectIdle /\ ExecIdle
InitSelect == SelectIdle /\ EvalIdle /\ RouteIdle /\ ExecIdle
InitRouteAndSelect == RouteIdle /\ SelectIdle /\ EvalIdle /\ ExecIdle
InitExec ==
    /\ ExecInit /\ threads = 1 /\ grades = { Hundredths(DefaultStepConfidence) }
    /\ EvalIdle /\ RouteIdle /\ SelectIdle
InitExecConcurrent ==
    /\ ExecInit /\ threads = 2 /\ grades = { Hundredths(DefaultStepConfidence) }
    /\ EvalIdle /\ RouteIdle /\ SelectIdle
InitExecGraded ==
    /\ ExecInit /\ threads = 1 /\ grades \in { { grade } : grade \in Grades }
    /\ EvalIdle /\ RouteIdle /\ SelectIdle

InitAssigned == ExecIdle /\ EvalIdle /\ RouteIdle /\ SelectIdle

\* One evaluation agent, its callers keep nothing.
SpecEval == InitEval /\ [][EvalNext]_vars

\* The same, with the sequential execution of a started call: once process is
\* entered its statements run to the return.
SpecEvalFair ==
    /\ InitEval
    /\ [][EvalNext]_vars
    /\ WF_vars(CorrectionIteration \/ LoopExit \/ Return)

\* One evaluation agent whose caller keeps the first result to compare it with
\* the next.
SpecEvalPair == InitEvalPair /\ [][EvalNext]_vars

\* One router, of either kind.
SpecRoute == InitRoute /\ [][RouteNext]_vars

\* One router whose caller makes the same request again.
SpecRouteRepeat == InitRouteRepeat /\ [][RouteNext]_vars

\* The workflow selector, called with any routing analysis.
SpecSelect == InitSelect /\ [][SelectNext]_vars

\* The lexical router and the selector behind it, as process_project_request
\* runs them.
SpecRouteAndSelect == InitRouteAndSelect /\ [][RouteAndSelectNext]_vars

\* One orchestrator whose callers run one execution after the other.
SpecExec == InitExec /\ [][ExecNext]_vars

\* One orchestrator on which two executions run at the same time.
SpecExecConcurrent == InitExecConcurrent /\ [][ExecNext]_vars

\* One orchestrator, one execution after the other, providers whose responses
\* carry one of the confidences of Grades, and a caller that asks for the
\* overall confidence between the steps.
SpecExecGraded == InitExecGraded /\ [][GradedNext]_vars

\* One step-wise orchestrator whose caller assigns ledgers and asks for their
\* overall confidence.
SpecAssigned == InitAssigned /\ [][AssignedNext]_vars

\* =====================================================================
\* Properties of EvaluationAgent
\* =====================================================================

\* The scores of all evaluations of the current call are below the threshold.
AllBelowThreshold == \A i \in 1..Len(evalLog) : evalLog[i] < correction_threshold

\* C1: at every point of process the correction history holds at most
\* max_interactions records, and no iteration follows one whose re-evaluation
\* reached the threshold: every record but the last has a new_score below
\* correction_threshold, and the loop is only ever re-entered with the last
\* score below it.
C1_HistoryBoundedAndHaltsAtThreshold ==
    /\ Len(correction_history) <= max_interactions
    /\ \A k \in 1..Len(correction_history) :
           k < Len(correction_history)
               => correction_history[k].new_score < correction_threshold
    /\ pc = "loop" => OverallScore(evaluation_result) < correction_threshold

\* process has returned after the first of two allowed iterations, whose
\* re-evaluation reached the threshold.
C1_Witness ==
    /\ pc = "done"
    /\ max_interactions = 2
    /\ Len(response[1].correction_history) = 1
    /\ response[1].correction_history[1].new_score >= correction_threshold

\* C2: a call that has entered the correction loop returns, whatever the
\* evaluator answers; the response it returns reports at most max_interactions
\* iterations, and its overall_score is the score of the last evaluation made.
C2_LoopTerminatesWithLastScore ==
    /\ (pc = "loop") ~> (pc = "done")
    /\ [](pc = "done" =>
            /\ response[1].iterations_performed <= max_interactions
            /\ Len(evalLog) = response[1].iterations_performed + 1
            /\ response[1].overall_score = evalLog[Len(evalLog)])

\* process has returned from a loop in which the score never reached the
\* threshold, after two iterations.
C2_Witness ==
    /\ pc = "done"
    /\ exit_reason = "cap_reached"
    /\ response[1].iterations_performed = 2
    /\ AllBelowThreshold
    /\ response[1].overall_score = evalLog[3]

\* C3: with corrections disabled, or an initial score at or above the
\* threshold, process returns zero iterations, an empty history, the
\* submitted artifact as final_item, and has called the evaluator once.
C3_NoCorrectionNeeded ==
    (pc = "done" /\ (~ enable_corrections \/ evalLog[1] >= correction_threshold))
        => /\ response[1].iterations_performed = 0
           /\ response[1].correction_history = << >>
           /\ response[1].final_item = Artifact(item_to_evaluate)
           /\ Len(evalLog) = 1

\* process has returned on an initial score of 9.0 against the threshold 7.0,
\* on an agent that allows iterations.
C3_Witness ==
    /\ pc = "done"
    /\ enable_corrections
    /\ max_interactions > 0
    /\ evalLog[1] = 90
    /\ correction_threshold = DefaultThreshold

\* C4: with corrections enabled and every evaluation below the threshold,
\* process returns exactly max_interactions records, numbered 1, 2, ... in
\* order, and has called the evaluator max_interactions + 1 times.
C4_ExactlyCapRecords ==
    (pc = "done" /\ enable_corrections /\ AllBelowThreshold)
        => /\ Len(response[1].correction_history) = max_interactions
           /\ \A k \in 1..Len(response[1].correction_history) :
                  response[1].correction_history[k].iteration = k
           /\ Len(evalLog) = max_interactions + 1

\* The evaluator answered 3.0 every time to an agent with cap 2.
C4_Witness ==
    /\ pc = "done"
    /\ enable_corrections
    /\ max_interactions = 2
    /\ evalLog = << 30, 30, 30 >>
    /\ Len(response[1].correction_history) = 2

\* C5: a call whose cap is 0, because the agent was constructed with
\* max_interactions = 0 or because evaluate_with_corrections was called with
\* max_iterations = 0, makes one evaluation and no correction.
C5_ZeroCapIsSinglePass ==
    (pc = "done" /\ (max_interactions = 0 \/ entry.max_iterations = << 0 >>))
        => /\ Len(evalLog) = 1
           /\ response[1].iterations_performed = 0
           /\ response[1].correction_history = << >>

\* C6: when a caller has the results of two calls, one ended by the cap with
\* the score below the threshold and one ended by a score that met the
\* threshold, the two results differ.
C6_OutcomeDistinguishable ==
    (/\ pc = "done"
     /\ remembered # << >>
     /\ calls = 2
     /\ { remembered[1].exit_reason, exit_reason } = { "cap_reached", "threshold_met" })
        => remembered[1].result # response[1]

\* =====================================================================
\* Properties of the routing decision
\* =====================================================================

\* The position of a provider in the registry the decision was made from.
Registered(d, name) == CHOOSE k \in 1..Len(d.all_names) : d.all_names[k] = name

\* The providers of the registry other than the primary whose score is above 0.3.
Eligible(d) ==
    { k \in 1..Len(d.all_names) :
          d.all_names[k] # d.primary_agent /\ d.all_scores[k] > AlternativeThreshold }

\* The registry positions of the listed alternatives.
Listed(d) == { Registered(d, d.alternatives[p].agent) : p \in 1..Len(d.alternatives) }

\* C7: the confidence of every routing decision, as metadata routing_confidence
\* and as the response's confidence_score, lies between 0 and 1, under the
\* lexical and under the cosine strategy.
C7_ConfidenceInUnitInterval ==
    rt_pc = "routed"
        => /\ 0 <= routing[1].routing_confidence
           /\ routing[1].routing_confidence <= One
           /\ 0 <= routing[1].confidence_score
           /\ routing[1].confidence_score <= One

C9_AlternativesAreThoseAboveThreshold ==
    rt_pc = "routed"
        => /\ Listed(routing[1]) \subseteq Eligible(routing[1])
           /\ Len(routing[1].alternatives)
                  = Min(MaxAlternatives, Cardinality(Eligible(routing[1])))
           /\ Cardinality(Listed(routing[1])) = Len(routing[1].alternatives)
           /\ \A k \in Eligible(routing[1]) \ Listed(routing[1]) :
                  \A j \in Listed(routing[1]) :
                      routing[1].all_scores[k] <= routing[1].all_scores[j]
           /\ \A p \in 1..(Len(routing[1].alternatives) - 1) :
                  routing[1].alternatives[p].score >= routing[1].alternatives[p + 1].score

\* C10: the primary has the highest score and is registered before every
\* other provider with that score; of two alternatives with the same score
\* the one registered first is listed first.
C10_TiesInRegistrationOrder ==
    rt_pc = "routed"
        => /\ \A k \in 1..Len(routing[1].all_names) :
                  /\ routing[1].all_scores[k]
                        <= routing[1].all_scores[Registered(routing[1], routing[1].primary_agent)]
                  /\ routing[1].all_scores[k]
                        = routing[1].all_scores[Registered(routing[1], routing[1].primary_agent)]
                     => Registered(routing[1], routing[1].primary_agent) <= k
           /\ \A p, q \in 1..Len(routing[1].alternatives) :
                  (p < q /\ routing[1].alternatives[p].score = routing[1].alternatives[q].score)
                      => Registered(routing[1], routing[1].alternatives[p].agent)
                             < Registered(routing[1], routing[1].alternatives[q].agent)

\* A lexical decision in which the primary shares the highest score with a
\* provider registered after it, and two alternatives have the same score.
C10_Witness ==
    /\ rt_pc = "routed"
    /\ router = "lexical"
    /\ \E k \in 1..Len(Agents) :
           /\ Agents[k] # routing[1].primary_agent
           /\ routing[1].all_scores[k] = routing[1].routing_confidence
    /\ \E p \in 1..(Len(routing[1].alternatives) - 1) :
           routing[1].alternatives[p].score = routing[1].alternatives[p + 1].score

\* =====================================================================
\* Properties of the workflow selector
\* =====================================================================

\* The primaries that have a pipeline of their own, and the pipeline of each.
SpecializedFor(primary) ==
    CASE primary = "ProjectManagerAgent" -> "enhanced_project_management"
      [] primary = "ActionPlanningAgent" -> "enhanced_action_planning"
      [] primary = "EvaluationAgent" -> "enhanced_evaluation"
      [] OTHER -> "none"

\* C11: whenever multi_agent_required is true or the confidence is below 0.8
\* the comprehensive multi-agent workflow is selected, whatever the primary.
C11_ComprehensiveWhenMultiOrLowConfidence ==
    (sel_pc = "selected"
     /\ (routing_analysis[1].multi_agent_required
         \/ routing_analysis[1].confidence < SelectorThreshold))
        => workflow = "comprehensive_multi_agent"

\* A task the lexical analysis flags as multi-agent, routed to a primary with a
\* pipeline of its own, has selected the comprehensive workflow; so has an
\* analysis with the flag set and confidence 1.
C11_Witness ==
    /\ sel_pc = "selected"
    /\ routing_analysis[1].multi_agent_required
    /\ routing_analysis[1].confidence = One
    /\ routing_analysis[1].primary_agent = "EvaluationAgent"
    /\ workflow = "comprehensive_multi_agent"

\* C12: every call selects one of the four workflows, and it selects the
\* pipeline of the primary exactly when multi_agent_required is false, the
\* confidence is at least 0.8 and the primary is one of ProjectManagerAgent,
\* ActionPlanningAgent, EvaluationAgent; every other call selects the
\* comprehensive workflow.
C12_SelectorTotalAndExact ==
    sel_pc = "selected"
        => /\ workflow \in Workflows
           /\ IF /\ ~ routing_analysis[1].multi_agent_required
                 /\ routing_analysis[1].confidence >= SelectorThreshold
                 /\ SpecializedFor(routing_analysis[1].primary_agent) # "none"
              THEN workflow = SpecializedFor(routing_analysis[1].primary_agent)
              ELSE workflow = "comprehensive_multi_agent"

\* A confident single-agent decision for ActionPlanningAgent, at exactly 0.8,
\* has selected the action planning pipeline.
C12_Witness ==
    /\ sel_pc = "selected"
    /\ ~ routing_analysis[1].multi_agent_required
    /\ routing_analysis[1].confidence = SelectorThreshold
    /\ routing_analysis[1].primary_agent = "ActionPlanningAgent"
    /\ workflow = "enhanced_action_planning"

\* =====================================================================
\* Properties of the workflow executors
\* =====================================================================

\* The ledger the caller of execution e holds, as it reads now.
Ledger(e) == heap[ex[e].result[1].ledger]

\* How many provider calls of execution e were for plan position p.
Invocations(e, p) == Cardinality({ i \in 1..Len(ex[e].invoked) : ex[e].invoked[i] = p })

\* C13: when a provider raised during a plan step of execute_workflow or of
\* process_project_request, the caller's ledger ends with a record of that
\* step with success false and the error, no later step was started, and the
\* provider of the failed step was called once.
C13_FailureRecordedPlanAborted ==
    \A e \in 1..MaxExecs :
        (orchestrator \in { "enhanced", "pipeline" } /\ ex[e].pc = "done" /\ ex[e].raised # 0)
            => /\ ex[e].result[1].ledger # 0
               /\ Ledger(e) # << >>
               /\ Ledger(e)[Len(Ledger(e))].success = "False"
               /\ Ledger(e)[Len(Ledger(e))].error # << >>
               /\ Ledger(e)[Len(Ledger(e))].position = ex[e].raised
               /\ \A i \in 1..Len(ex[e].invoked) : ex[e].invoked[i] <= ex[e].raised
               /\ Invocations(e, ex[e].raised) = 1

\* C14: the ledger execute_workflow returns, whether it succeeded or aborted,
\* has one record per step attempted, in the order of the plan, each with the
\* success flag of that step's outcome; after a failure it is the ledger up to
\* and including the failed step.
C14_OneRecordPerAttemptedStep ==
    \A e \in 1..MaxExecs :
        (orchestrator = "enhanced" /\ ex[e].pc = "done")
            => /\ Len(Ledger(e)) = Len(ex[e].invoked)
               /\ \A i \in 1..Len(Ledger(e)) :
                      /\ Ledger(e)[i].position = i
                      /\ ex[e].invoked[i] = i
                      /\ Ledger(e)[i].step_name = EnhancedPlan[i]
                      /\ Ledger(e)[i].by = e
                      /\ Ledger(e)[i].success = IF ex[e].raised = i THEN "False" ELSE "True"
               /\ ex[e].result[1].success = (ex[e].raised = 0)
               /\ ex[e].raised # 0 => ex[e].raised = Len(Ledger(e))

\* The second execution on an orchestrator aborted at its third step and
\* returned a ledger of three records.
C14_Witness ==
    /\ orchestrator = "enhanced"
    /\ ex[2].pc = "done"
    /\ ex[2].raised = 3
    /\ ~ ex[2].result[1].success
    /\ Len(Ledger(2)) = 3

\* C17: with two executions running at the same time on one orchestrator that
\* keeps completed_steps, every record an execution appended is in the list it
\* appends to and returns, and that list holds no record of the other one.
C17_LedgersSeparate ==
    \A e \in 1..MaxExecs :
        (orchestrator \in { "enhanced", "corrected" } /\ ex[e].pc # "idle")
            => \A k \in 1..Len(heap) : \A i \in 1..Len(heap[k]) :
                   (heap[k][i].by = e)
                       <=> (k = IF ex[e].pc = "done" THEN ex[e].result[1].ledger
                                ELSE self_steps)

\* C18: with one execution after the other, the ledger an execution returns
\* has as many records as that execution made: one per step that returned,
\* and with execute_workflow one for the step that raised.
C18_LedgerOfThisInvocationOnly ==
    \A e \in 1..MaxExecs :
        (ex[e].pc = "done" /\ ex[e].result[1].ledger # 0)
            => Len(Ledger(e)) = Len(ex[e].invoked)
                                - (IF ex[e].raised # 0 /\ orchestrator # "enhanced"
                                   THEN 1 ELSE 0)

\* =====================================================================
\* Further properties of the routing decision
\* =====================================================================

\* C15: a routing call that repeats the first one (same text, same preferred
\* agents, same router and registry, same answer or same failure of the
\* embeddings API) returns the decision the first one returned: same primary,
\* same confidence, same alternatives.
C15_RepeatedRequestSameDecision ==
    (rt_pc = "routed" /\ first_routing # << >>)
        => /\ routing[1].primary_agent = first_routing[1].decision.primary_agent
           /\ routing[1].routing_confidence = first_routing[1].decision.routing_confidence
           /\ routing[1].alternatives = first_routing[1].decision.alternatives

\* C16: every routing call returns a primary that is a provider of the
\* router's registry.
C16_PrimaryIsRegistered ==
    rt_pc = "routed"
        => \E k \in 1..Len(IF router = "lexical" THEN Agents ELSE RouteAgents) :
               routing[1].primary_agent
                   = (IF router = "lexical" THEN Agents ELSE RouteAgents)[k]

\* A cosine decision in which every provider scored 0, and a lexical one in
\* which no provider is above the alternatives threshold, are both of the
\* kind the claim names; this is the first.
C16_Witness ==
    /\ rt_pc = "routed"
    /\ router = "semantic"
    /\ \A k \in 1..Len(RouteAgents) : routing[1].all_scores[k] = 0
    /\ routing[1].alternatives # << >>
    /\ routing[1].primary_agent = RouteAgents[1]

\* C20: for "evaluate the quality of our documentation", with no preferred
\* providers, the lexical router classifies the task as evaluation, names
\* EvaluationAgent as primary and reports a confidence above 0.5.
C20_ScenarioA ==
    (rt_pc = "routed" /\ router = "lexical" /\ task_text = ScenarioA
     /\ preferred_agents = { })
        => /\ routing[1].task_analysis.classification = "evaluation"
           /\ routing[1].primary_agent = "EvaluationAgent"
           /\ 2 * routing[1].routing_confidence > One

\* The lexical router has answered that request.
C20_Witness ==
    /\ rt_pc = "routed"
    /\ router = "lexical"
    /\ task_text = ScenarioA
    /\ preferred_agents = { }
    /\ routing[1].primary_agent = "EvaluationAgent"
    /\ routing[1].task_analysis.keyword_hits[5] = 2

\* =====================================================================
\* Evaluator output that cannot be parsed
\* =====================================================================

\* C19: every evaluation whose evaluator output could not be parsed yields
\* the score 5.0; while it is the current evaluation it is the fallback
\* dictionary with its generic weakness and recommendation; a call that met
\* such an output, at the initial evaluation or at a re-evaluation, goes on
\* through the loop and returns a response with success = True.
C19_MalformedOutputReplaced ==
    /\ Len(replyLog) = Len(evalLog)
    /\ \A i \in 1..Len(replyLog) :
           replyLog[i] = "malformed" => evalLog[i] = FallbackScore
    /\ (pc # "idle" /\ replyLog[Len(replyLog)] = "malformed")
           => /\ evaluation_result.has_score
              /\ evaluation_result.overall_score = FallbackScore
              /\ evaluation_result.weaknesses = << "JSON parsing failed" >>
              /\ evaluation_result.recommendations = << "Review evaluation format" >>
              /\ evaluation_result.individual_scores = << >>
    /\ pc = "done"
           => /\ response[1].success
              /\ response[1].iterations_performed = Len(replyLog) - 1
              /\ response[1].overall_score = evalLog[Len(evalLog)]

\* A call has returned whose initial evaluation and whose last re-evaluation
\* both met output that could not be parsed.
C19_Witness ==
    /\ pc = "done"
    /\ Len(replyLog) >= 2
    /\ replyLog[1] = "malformed"
    /\ replyLog[Len(replyLog)] = "malformed"
    /\ response[1].success
    /\ response[1].overall_score = FallbackScore

\* =====================================================================
\* Directives, the chain of records, and the cap of the agent
\* =====================================================================

\* The criteria of an evaluation that score below 6, in the order listed.
LowScoring(evaluation) ==
    { i \in 1..Len(evaluation.individual_scores) :
          evaluation.individual_scores[i][2] < 60 }

\* C24: the directives of a correction iteration, generated from the
\* evaluation the iteration starts with, are one per weakness, then one per
\* criterion scoring below 6, then one per recommendation, and nothing else:
\* their number is the sum of the three counts, and no directive names a
\* criterion that scores 6 or more.
C24_DirectivesFromEvaluation ==
    [][ (pc = "loop" /\ interaction_count' = interaction_count + 1)
          => LET e == evaluation_result
                 d == correction_history'[Len(correction_history')].corrections_applied
                 w == Len(e.weaknesses)
                 c == Cardinality(LowScoring(e))
                 r == Len(e.recommendations)
             IN  /\ Len(d) = w + c + r
                 /\ \A i \in 1..w : d[i] = << "Address weakness", e.weaknesses[i] >>
                 /\ \A i \in (w + 1)..(w + c) :
                        \E k \in LowScoring(e) :
                            d[i] = << "Improve", e.individual_scores[k][1] >>
                 /\ \A k \in LowScoring(e) :
                        \E i \in (w + 1)..(w + c) :
                            d[i] = << "Improve", e.individual_scores[k][1] >>
                 /\ \A i \in 1..r :
                        d[w + c + i] = << "Implement", e.recommendations[i] >>
                 /\ \A k \in 1..Len(e.individual_scores) :
                        e.individual_scores[k][2] >= 60
                            => \A i \in 1..Len(d) :
                                   d[i] # << "Improve", e.individual_scores[k][1] >> ]_vars

\* An iteration started from an evaluation with two weaknesses, one criterion
\* at 5, one at exactly 6 and one recommendation: four directives.
C24_Witness ==
    /\ Len(correction_history) >= 1
    /\ correction_history[1].corrections_applied
           = << << "Address weakness", "w1" >>, << "Address weakness", "w2" >>,
                << "Improve", "completeness" >>, << "Implement", "r1" >> >>

\* C26: the records of the correction history form a chain from the initial
\* evaluation to the returned score.
C26_HistoryIsChain ==
    /\ \A k \in 1..Len(correction_history) :
           /\ correction_history[k].iteration = k
           /\ correction_history[k].previous_score
                  = (IF k = 1 THEN evalLog[1] ELSE correction_history[k - 1].new_score)
           /\ correction_history[k].new_score = evalLog[k + 1]
           /\ correction_history[k].improvement
                  = correction_history[k].new_score - correction_history[k].previous_score
    /\ pc = "done"
           => /\ response[1].correction_history = correction_history
              /\ response[1].iterations_performed = Len(correction_history)
              /\ (correction_history # << >>
                     => response[1].overall_score
                            = correction_history[Len(correction_history)].new_score)

\* A returned call with two records whose scores all differ.
C26_Witness ==
    /\ pc = "done"
    /\ Len(response[1].correction_history) = 2
    /\ response[1].correction_history[1].previous_score = 0
    /\ response[1].correction_history[1].new_score = 30
    /\ response[1].correction_history[2].new_score = 90

\* C27: process returns only with corrections disabled, or the score at the
\* threshold or above, or the cap of iterations used up.
C27_NoEarlyStop ==
    pc = "done"
        => \/ ~ response[1].corrections_enabled
           \/ response[1].overall_score >= correction_threshold
           \/ response[1].iterations_performed >= max_interactions

\* A call that stopped before the cap because the score reached the
\* threshold, and only then.
C27_Witness ==
    /\ pc = "done"
    /\ response[1].corrections_enabled
    /\ response[1].iterations_performed = 1
    /\ max_interactions = 2
    /\ evalLog = << 50, 70 >>
    /\ correction_threshold = DefaultThreshold

\* The call in progress came through evaluate_with_corrections with a
\* max_iterations above 0.
GivenPositive ==
    /\ entry.via = "evaluate_with_corrections"
    /\ entry.max_iterations # << >>
    /\ entry.max_iterations[1] > 0

\* C28: during and after a call, max_interactions is the max_iterations the
\* call was given if that is above 0, and what the call found otherwise
\* (no max_iterations, max_iterations 0, or a call of process); nothing but
\* the start of a call changes it, and it is the cap of the call's loop.
C28_CapOverwrittenAndKept ==
    /\ [](pc # "idle"
            => /\ max_interactions = (IF GivenPositive THEN entry.max_iterations[1]
                                      ELSE entry.cap_before)
               /\ interaction_count <= max_interactions)
    /\ [][pc # "idle" => max_interactions' = max_interactions]_vars

\* evaluate_with_corrections(item, max_iterations=2) on an agent whose cap
\* was 0 has returned after two iterations, and the agent's cap is 2.
C28_Witness ==
    /\ pc = "done"
    /\ GivenPositive
    /\ entry.max_iterations = << 2 >>
    /\ entry.cap_before = 0
    /\ max_interactions = 2
    /\ response[1].iterations_performed = 2

\* =====================================================================
\* The Task Analyzer
\* =====================================================================

\* The number of patterns of category k that the task text matches.
MatchCount(k) == GroupScore(TaskPatterns[k], task_text)

\* The text matches no classification pattern, no domain pattern and holds no
\* complexity indicator.
Unmatched ==
    /\ \A k \in 1..Len(TaskTypeNames) : MatchCount(k) = 0
    /\ \A k \in 1..Len(DomainNames) : GroupScore(DomainPatterns[k], task_text) = 0
    /\ \A k \in 1..3 : ComplexityIndicators[k] \cap TextAtoms(task_text) = { }

\* The classification is the first registered of the categories with the
\* highest, non-zero, number of matches, and "general" if there is none.
HighestCountFirstRegistered ==
    LET a == routing[1].task_analysis
    IN  IF \A k \in 1..Len(TaskTypeNames) : MatchCount(k) = 0
        THEN a.classification = "general"
        ELSE \E k \in 1..Len(TaskTypeNames) :
                /\ a.classification = TaskTypeNames[k]
                /\ \A j \in 1..Len(TaskTypeNames) : MatchCount(j) <= MatchCount(k)
                /\ \A j \in 1..(k - 1) : MatchCount(j) < MatchCount(k)

\* C23 as stated: every lexical routing call gets an analysis; its
\* classification is the category with the most pattern matches, the first
\* registered among equals; a text that matches nothing is classified
\* general, in the domain general, of complexity medium.
C23_AnalyzerDefaults ==
    (rt_pc = "routed" /\ router = "lexical")
        => /\ HighestCountFirstRegistered
           /\ Unmatched
                  => /\ routing[1].task_analysis.classification = "general"
                     /\ routing[1].task_analysis.domain = "general"
                     /\ routing[1].task_analysis.complexity = "medium"

\* C23 amended: as above, but the complexity of a text that matches nothing
\* is medium only up to 2000 characters (text, blank and context together);
\* beyond that the length bonus of the "high" bucket makes it high.
C23_AnalyzerDefaultsUpToLength ==
    (rt_pc = "routed" /\ router = "lexical")
        => /\ HighestCountFirstRegistered
           /\ Unmatched
                  => /\ routing[1].task_analysis.classification = "general"
                     /\ routing[1].task_analysis.domain = "general"
                     /\ routing[1].task_analysis.complexity
                            = (IF TextLength(task_text) > 2000 THEN "high" ELSE "medium")

\* The analyser has answered for a text of 2001 characters that matches
\* nothing: general, general, and high.
C23_Witness ==
    /\ rt_pc = "routed"
    /\ router = "lexical"
    /\ task_text = LongText
    /\ Unmatched
    /\ routing[1].task_analysis.classification = "general"
    /\ routing[1].task_analysis.domain = "general"
    /\ routing[1].task_analysis.complexity = "high"

\* =====================================================================
\* The lexical score
\* =====================================================================

\* 0.4 * (keyword hits / keyword count) + 0.3 + 0.2 + 0.1 + 0.1, each of the
\* last four only when its condition holds, in the unit of the scores and
\* without rounding.  The domain matches when the domain tag occurs in the
\* provider's specialties.
ExactBlend(k) ==
    LET a == routing[1].task_analysis
    IN  (4 * One * a.keyword_hits[k]) \div (10 * Len(Keywords[k]))
        + (IF a.classification \in TaskTypes[k] THEN (3 * One) \div 10 ELSE 0)
        + (IF a.complexity \in ComplexityHandling[k] THEN (2 * One) \div 10 ELSE 0)
        + (IF a.domain \in SpecialtyDomains[k] THEN One \div 10 ELSE 0)
        + (IF Agents[k] \in preferred_agents THEN One \div 10 ELSE 0)

\* C22: every lexical score is min(1.0, the blend above), as a double: it
\* differs from the exact value by the rounding of the float additions only,
\* which is less than one unit of the scores; it lies in [0, 1]; and the
\* reported confidence is the score of the primary.
C22_ScoreIsCappedBlend ==
    (rt_pc = "routed" /\ router = "lexical")
        => /\ \A k \in 1..Len(Agents) :
                  /\ routing[1].all_scores[k] - Min(One, ExactBlend(k)) \in -7..7
                  /\ routing[1].all_scores[k] >= 0
                  /\ routing[1].all_scores[k] <= One
           /\ \E k \in 1..Len(Agents) :
                  /\ routing[1].primary_agent = Agents[k]
                  /\ routing[1].routing_confidence = routing[1].all_scores[k]

\* A preferred RAGKnowledgePromptAgent with all its keywords, its task type,
\* its complexity and its domain: the blend is 1.1 and the score is 1.0.
C22_Witness ==
    /\ rt_pc = "routed"
    /\ router = "lexical"
    /\ task_text = ResearchText
    /\ "RAGKnowledgePromptAgent" \in preferred_agents
    /\ ExactBlend(4) = One + One \div 10
    /\ routing[1].all_scores[4] = One
    /\ routing[1].primary_agent = "RAGKnowledgePromptAgent"
    /\ routing[1].routing_confidence = One

\* =====================================================================
\* The lexical score and the selector
\* =====================================================================

\* The position of the primary in the registry of the lexical router.
PrimaryPosition == CHOOSE k \in 1..Len(Agents) : Agents[k] = routing[1].primary_agent

\* The classification is one of the primary's task types.
PrimaryTypeMatches ==
    routing[1].task_analysis.classification \in TaskTypes[PrimaryPosition]

\* At least half of the primary's keywords occur in the task text.
PrimaryHalfKeywords ==
    2 * routing[1].task_analysis.keyword_hits[PrimaryPosition]
        >= Len(Keywords[PrimaryPosition])

\* C30 as stated: with no preferred providers, a primary without the task's
\* classification among its task types has confidence <= 0.7 and the
\* selector goes to the comprehensive workflow; a specialized pipeline is
\* selected only for a primary with the classification among its task types
\* and at least half of its keywords in the text.
C30_NoTypeMatchAtMostSevenTenths ==
    (sel_pc = "selected" /\ rt_pc = "routed")
        => /\ ~ PrimaryTypeMatches
                  => /\ 10 * routing[1].routing_confidence <= 7 * One
                     /\ workflow = "comprehensive_multi_agent"
           /\ workflow # "comprehensive_multi_agent"
                  => PrimaryTypeMatches /\ PrimaryHalfKeywords

\* C30 amended: the confidence of such a primary is below the 0.8 of the
\* selector and at most the double 0.4 + 0.2 + 0.1, which is one unit in the
\* last place above 0.7; the rest as stated.
C30_NoTypeMatchBelowSelectorThreshold ==
    (sel_pc = "selected" /\ rt_pc = "routed")
        => /\ ~ PrimaryTypeMatches
                  => /\ 10 * routing[1].routing_confidence < 8 * One
                     /\ 10 * (routing[1].routing_confidence - 2) <= 7 * One
                     /\ workflow = "comprehensive_multi_agent"
           /\ workflow # "comprehensive_multi_agent"
                  => PrimaryTypeMatches /\ PrimaryHalfKeywords

\* RAGKnowledgePromptAgent is primary for a text classified as evaluation,
\* with all its keywords, its complexity and its domain: 0.7000000000000001,
\* and the comprehensive workflow.
C30_Witness ==
    /\ sel_pc = "selected"
    /\ rt_pc = "routed"
    /\ task_text = MixedText
    /\ routing[1].primary_agent = "RAGKnowledgePromptAgent"
    /\ ~ PrimaryTypeMatches
    /\ 10 * routing[1].routing_confidence > 7 * One
    /\ workflow = "comprehensive_multi_agent"

\* =====================================================================
\* Properties of the overall confidence
\* =====================================================================

\* Two averages are the same number.
SameValue(a, b) == a.num * b.den = b.num * a.den /\ a.units = b.units

\* The average a lies in [0,1] (confidences are in hundredths).
InUnitRange(a) == 0 <= a.num /\ a.num <= 100 * a.den /\ 0 <= a.units

\* The average a is above 0.
Positive(a) == a.num > 0 \/ a.units > 0

StepNames(steps) == [ i \in 1..Len(steps) |-> steps[i].step_name ]

SucceededEnhanced(e) ==
    /\ orchestrator = "enhanced"
    /\ ex[e].pc = "done"
    /\ ex[e].result[1].success

\* C29: after a successful execute_workflow the ledger has exactly the five
\* records routing_analysis, primary_processing, quality_evaluation,
\* support_integration, output_structuring in this order, while the
\* overall_confidence, processing_steps and total_steps of the structured
\* result are those of the first four records, and that overall_confidence
\* is the one the result reports.
C29_FiveRecordsFourCounted ==
    \A e \in 1..MaxExecs :
        SucceededEnhanced(e)
            => /\ StepNames(Ledger(e)) = EnhancedPlan
               /\ Len(Ledger(e)) = 5
               /\ ex[e].structured[1].processing_steps = 4
               /\ ex[e].structured[1].total_steps = 4
               /\ SameValue(ex[e].structured[1].overall_confidence,
                            CalculateOverallConfidence(SubSeq(Ledger(e), 1, 4)))
               /\ ex[e].result[1].overall_confidence
                      = << ex[e].structured[1].overall_confidence >>

\* A successful execution whose first three steps reported 1.0: the four
\* counted records average 0.95, the five of the ledger 0.92.
C29_Witness ==
    /\ SucceededEnhanced(1)
    /\ ConfidencesOf(Ledger(1)) = << Hundredths(100), Hundredths(100), Hundredths(100),
                                     Hundredths(80), Hundredths(80) >>
    /\ SameValue(ex[1].result[1].overall_confidence[1], Hundredths(95))
    /\ ~ SameValue(ex[1].result[1].overall_confidence[1],
                   CalculateOverallConfidence(Ledger(1)))

\* The value _calculate_overall_confidence returned for the inspected ledger
\* is the average of the confidences of its successful records alone, and 0.0
\* when it has none; both aggregates of the ledger lie in [0,1].
AggregatesOfSuccessful ==
    inspection # << >>
        => /\ InUnitRange(inspection[1].value)
           /\ InUnitRange(inspection[1].weighted)
           /\ LET good == SelectSeq(inspection[1].steps, Successful)
              IN  IF good = << >>
                  THEN SameValue(inspection[1].value, Hundredths(0))
                  ELSE SameValue(inspection[1].value,
                                 DividedBy(SumOf(ConfidencesOf(good)), Len(good)))

SomeSuccessful(Test(_)) ==
    \E i \in 1..Len(inspection[1].steps) :
        /\ Successful(inspection[1].steps[i])
        /\ Test(inspection[1].steps[i].confidence[1])

\* The confidence c is at least 0.01.
AtLeastOneHundredth(c) == c.num >= c.den

\* C25: with every step confidence in [0,1] the overall confidence lies in
\* [0,1]; _calculate_overall_confidence leaves the failed steps out of the
\* average, returns 0.0 when no step succeeded, and returns more than 0 when
\* a successful step has a confidence above 0.
C25_ConfidenceInRangeAndPositive ==
    /\ AggregatesOfSuccessful
    /\ (inspection # << >> /\ SomeSuccessful(Positive))
           => Positive(inspection[1].value)

\* C25 amended: the same, with more than 0 promised when a successful step
\* has a confidence of at least 0.01: the quotient of a sum of subnormal
\* confidences can round to 0.0.
C25_ConfidenceInRangeAndPositiveAboveHundredth ==
    /\ AggregatesOfSuccessful
    /\ (inspection # << >> /\ SomeSuccessful(AtLeastOneHundredth))
           => Positive(inspection[1].value)

\* The ledger of a step that succeeded with 1.0 and one that failed: the
\* overall confidence is 1.0, not the 0.5 of both records.
C25_Witness ==
    /\ inspection # << >>
    /\ inspection[1].steps = << AssignedRecord(TRUE, Hundredths(100), 1),
                                AssignedRecord(FALSE, Hundredths(0), 2) >>
    /\ SameValue(inspection[1].value, Hundredths(100))

\* C21: the overall confidence in the result of every successful execution,
\* of any executor, is the position-weighted average
\* sum(conf_i * i) / sum(i) of the confidences of its ledger in ledger order
\* (0.0 for an empty ledger), as calculate_workflow_confidence computes it.
C21_WeightedAverageReported ==
    \A e \in 1..MaxExecs :
        (ex[e].pc = "done" /\ ex[e].result[1].success)
            => /\ ex[e].result[1].overall_confidence # << >>
               /\ SameValue(ex[e].result[1].overall_confidence[1],
                            CalculateWorkflowConfidence(ConfidencesOf(Ledger(e))))

====
